---- MODULE Spec2Model ----
(***************************************************************************)
(* Billing-optimization engine of billingToolJS (src/services/rules.js).   *)
(*                                                                         *)
(* Times are whole minutes counted from Monday 2024-01-01 00:00 local      *)
(* time.  Every stored timestamp is written by formatLocalDateTime, which  *)
(* keeps year, month, day, hour and minute, so a minute is the finest      *)
(* grain a stored row can carry.  A stored TEXT column holds either such a *)
(* minute count, or Missing (NULL / empty string), or Unparsable (a string *)
(* new Date() cannot read).                                                *)
(***************************************************************************)
EXTENDS Integers, Sequences, FiniteSets, TLC

VARIABLES
  patient,                \* the patient record handed to the engine
  patients,               \* table patients: the other patients' rows
  doctors,                \* table doctors: the ids that exist
  shift_slots,            \* table shift_slots
  patient_status_events,  \* table patient_status_events
  activeShiftWindow,      \* the shift windows handed to the engine
  result,                 \* the list the last call returned
  previous,               \* the list the call before the last one returned
  threw,                  \* TRUE when the last call raised a TypeError
  shift_windows,          \* table shift_windows, with is_active
  is_on_shift,            \* column is_on_shift of table doctors, by doctor id
  served,                 \* number of route requests handled so far
  flag,                   \* the boolean argument of a builder called on its own
  pc,                     \* "ready" before the call, "done" after it
  ghost_ja_locks,         \* table ghost_ja_locks
  confirmed_billings,     \* table confirmed_billings
  patients_status         \* column status of table patients, by patient id

vars == <<patient, patients, doctors, shift_slots, patient_status_events,
          activeShiftWindow, result, previous, threw, shift_windows, is_on_shift,
          served, flag, pc, ghost_ja_locks, confirmed_billings, patients_status>>

\* What the routes of the shift keep, untouched by the billing engine.
shiftVars == <<shift_windows, is_on_shift, served>>

\* What the confirmation of a patient's billing keeps, untouched by the engine.
ledgerVars == <<ghost_ja_locks, confirmed_billings, patients_status>>

-----------------------------------------------------------------------------
(* Values *)

Missing == 0 - 1
Unparsable == 0 - 2
Null == 0 - 1
NoDoctor == 0
NoPatient == 0

MinutesPerDay == 1440

-----------------------------------------------------------------------------
(* services/helpers *)

\* toDate: a falsy value or a string Date cannot parse gives null.
toDate(value) == IF value < 0 THEN Null ELSE value

\* formatLocalDateTime: null for null, else "YYYY-MM-DDTHH:MM", the minute.
formatLocalDateTime(date) == IF date = Null THEN Null ELSE date

\* Date.getDay: 0 is Sunday; minute 0 falls on a Monday.
getDay(date) == ((date \div MinutesPerDay) + 1) % 7
minuteOfDay(date) == date % MinutesPerDay
dayOf(date) == date \div MinutesPerDay

-----------------------------------------------------------------------------
(* Array helpers: Array.prototype.sort is stable. *)

StableSort(s, k) ==
  LET n == Len(s)
      key == k \o <<>>
      pos == [i \in 1..n |->
                Cardinality({j \in 1..n : key[j] < key[i]
                                          \/ (key[j] = key[i] /\ j < i)}) + 1] \o <<>>
  IN [r \in 1..n |-> s[CHOOSE i \in 1..n : pos[i] = r]] \o <<>>

SortByTime(s) == StableSort(s, [i \in 1..Len(s) |-> s[i].time])

\* The rows of a table in rowid order.
RowsById(S) ==
  [r \in 1..Cardinality(S) |->
     CHOOSE x \in S : Cardinality({y \in S : y.id < x.id}) = r - 1]

RECURSIVE Flatten(_)
Flatten(ss) == IF ss = <<>> THEN <<>> ELSE Head(ss) \o Flatten(Tail(ss))

Range(s) == {s[i] : i \in 1..Len(s)}

-----------------------------------------------------------------------------
(* Constants of rules.js *)

TRIAGE_SLOT_MINUTES == 15
INDUCTION_DAILY_LIMIT == 2
INDUCTION_TOTAL_LIMIT == 4
INDUCTION_WINDOW_MIN == 1440
DELIVERY_BUFFER_MINUTES == 30
JA_VALUE == 55
JA_CAP == 12

-----------------------------------------------------------------------------
(* Time and modifier classifiers *)

floorToQuarter(date) == date - ((date % 60) % 15)

timeModifier(date) ==
  LET weekday == getDay(date)
      hm == minuteOfDay(date)
  IN IF hm < 420 THEN [modifier |-> "NTAM", weight |-> 3]
     ELSE IF hm >= 1320 THEN [modifier |-> "NTPM", weight |-> 3]
     ELSE IF weekday = 0 \/ weekday = 6 THEN [modifier |-> "WK", weight |-> 2]
     ELSE IF hm >= 1020 THEN [modifier |-> "EV", weight |-> 2]
     ELSE [modifier |-> "", weight |-> 1]

afterHoursModifier(date) ==
  LET weekday == getDay(date)
      hour == minuteOfDay(date)
      isWeekend == weekday = 0 \/ weekday = 6
  IN IF hour < 420 THEN "NTAM"
     ELSE IF hour >= 1320 THEN "NTPM"
     ELSE IF isWeekend THEN "WK"
     ELSE IF hour >= 1020 THEN "EV"
     ELSE ""

\* STAT_HOLIDAYS and DESIGNATED_STAT_HOLIDAYS are empty: isHoliday is false.
afterHoursPremiumModifier(date) ==
  LET hour == minuteOfDay(date)
      weekday == getDay(date)
      isWeekend == weekday = 0 \/ weekday = 6
  IN IF hour < 420 THEN "TNTA"
     ELSE IF hour >= 1320 THEN "TNTP"
     ELSE IF isWeekend THEN "TWK"
     ELSE IF hour >= 1020 THEN "TEV"
     ELSE ""

generateSlots(start, end) ==
  IF start >= end THEN <<>>
  ELSE [i \in 1..(((end - start - 1) \div 15) + 1) |-> start + 15 * (i - 1)]

\* Variant of the duration tiers that steps every 15 minutes.
triageVisitModifier_quarters(totalMinutes) ==
  IF totalMinutes >= 120 THEN "CMGP08"
  ELSE IF totalMinutes >= 105 THEN "CMGP07"
  ELSE IF totalMinutes >= 90 THEN "CMGP06"
  ELSE IF totalMinutes >= 75 THEN "CMGP05"
  ELSE IF totalMinutes >= 60 THEN "CMGP04"
  ELSE IF totalMinutes >= 45 THEN "CMGP03"
  ELSE IF totalMinutes >= 30 THEN "CMGP02"
  ELSE IF totalMinutes >= 15 THEN "CMGP01"
  ELSE ""

triageVisitModifier(totalMinutes) ==
  IF totalMinutes >= 85 THEN "CMGP08"
  ELSE IF totalMinutes >= 75 THEN "CMGP07"
  ELSE IF totalMinutes >= 65 THEN "CMGP06"
  ELSE IF totalMinutes >= 55 THEN "CMGP05"
  ELSE IF totalMinutes >= 45 THEN "CMGP04"
  ELSE IF totalMinutes >= 35 THEN "CMGP03"
  ELSE IF totalMinutes >= 25 THEN "CMGP02"
  ELSE IF totalMinutes >= 15 THEN "CMGP01"
  ELSE ""

reassessmentBaseCode(date) ==
  LET weekday == getDay(date)
      hour == minuteOfDay(date)
      isWeekend == weekday = 0 \/ weekday = 6
  IN IF hour < 420 \/ hour >= 1320 THEN "03.05FB"
     ELSE IF isWeekend THEN "03.05FA"
     ELSE IF hour >= 1020 THEN "03.05FA"
     ELSE "03.05F"

isSameDate(a, b) == a # Null /\ b # Null /\ dayOf(a) = dayOf(b)

callbackCodeForTriage(date) ==
  LET weekday == getDay(date)
      hour == minuteOfDay(date)
      isWeekend == weekday = 0 \/ weekday = 6
  IN IF hour < 420 THEN "03.03MD"
     ELSE IF hour >= 1320 THEN "03.03MC"
     ELSE IF isWeekend THEN "03.03LA"
     ELSE IF hour < 1020 THEN "03.03KA"
     ELSE "03.03LA"

callbackCodeForInpatient(date) ==
  LET hour == minuteOfDay(date)
  IN IF hour < 420 THEN "03.05QB"
     ELSE IF hour >= 1320 THEN "03.05QA"
     ELSE "03.05P"

triageCallbackValue(code) ==
  IF code = "03.03KA" THEN 80
  ELSE IF code = "03.03LA" THEN 120
  ELSE IF code = "03.03MC" THEN 160
  ELSE IF code = "03.03MD" THEN 160
  ELSE 0

inpatientCallbackValue(code) ==
  IF code = "03.05P" THEN 159
  ELSE IF code = "03.05QA" THEN 197
  ELSE IF code = "03.05QB" THEN 197
  ELSE 0

appendModifier(base, extra) ==
  IF extra = "" THEN base
  ELSE IF base = "" THEN extra
  ELSE base \o "," \o extra

\* dbGet('SELECT * FROM doctors WHERE id = ?'): the row, or nothing.
Doctor(id) == IF id \in doctors THEN id ELSE NoDoctor

Billing(time, code, modifier, doctor) ==
  [time |-> time, code |-> code, modifier |-> modifier, doctor |-> doctor]

-----------------------------------------------------------------------------
(* Triage billing builder *)

collectTriageSlots(patientSlots, triageCutoff) ==
  LET keep(slot) ==
        /\ toDate(slot.start_time) # Null
        /\ ~(triageCutoff # Null /\ toDate(slot.start_time) > triageCutoff)
        /\ slot.action \in {"triage_visit", "triage_reassessment"}
  IN SelectSeq(patientSlots, keep)

slotTimes(slots) == [i \in 1..Len(slots) |-> toDate(slots[i].start_time)]

RECURSIVE reassessmentGroups(_, _)
reassessmentGroups(sorted, current) ==
  IF sorted = <<>> THEN (IF current = <<>> THEN <<>> ELSE <<current>>)
  ELSE LET slot == Head(sorted)
       IN IF current = <<>> THEN reassessmentGroups(Tail(sorted), <<slot>>)
          ELSE LET sameDoctor == slot.doctor_id = current[1].doctor_id
                   contiguous == toDate(slot.start_time)
                                   - toDate(current[Len(current)].start_time)
                                 = TRIAGE_SLOT_MINUTES
               IN IF sameDoctor /\ contiguous
                  THEN reassessmentGroups(Tail(sorted), Append(current, slot))
                  ELSE <<current>> \o reassessmentGroups(Tail(sorted), <<slot>>)

triageVisitBillings(triageVisits, allowTriageVisit) ==
  IF Len(triageVisits) > 0 /\ allowTriageVisit
  THEN LET totalMinutes == Len(triageVisits) * TRIAGE_SLOT_MINUTES
           visitSlot == StableSort(triageVisits, slotTimes(triageVisits))[1]
       IN <<Billing(toDate(visitSlot.start_time), "03.03BZ",
                    triageVisitModifier(totalMinutes), Doctor(visitSlot.doctor_id))>>
  ELSE <<>>

reassessmentBillings(reassessments) ==
  LET sorted == StableSort(reassessments, slotTimes(reassessments))
      groups == reassessmentGroups(sorted, <<>>)
      bill(group) ==
        LET startSlot == group[1]
            minutes == Len(group) * TRIAGE_SLOT_MINUTES
            modifier == IF minutes > 35 THEN "CMXV35"
                        ELSE IF minutes > 20 THEN "CMXV20" ELSE ""
        IN Billing(toDate(startSlot.start_time),
                   reassessmentBaseCode(toDate(startSlot.start_time)),
                   modifier, Doctor(startSlot.doctor_id))
  IN [g \in 1..Len(groups) |-> bill(groups[g])]

triageExtras(triageSlots) ==
  LET extras(slot) ==
        (IF slot.triage_non_stress_test
         THEN <<Billing(toDate(slot.start_time), "87.54A", "", Doctor(slot.doctor_id))>>
         ELSE <<>>)
        \o
        (IF slot.triage_speculum_exam
         THEN <<Billing(toDate(slot.start_time), "13.99BE", "", Doctor(slot.doctor_id))>>
         ELSE <<>>)
  IN Flatten([i \in 1..Len(triageSlots) |-> extras(triageSlots[i])])

buildTriageBillings(triageSlots, allowTriageVisit) ==
  IF Len(triageSlots) = 0 THEN <<>>
  ELSE LET isVisit(slot) == slot.action = "triage_visit"
           isReassessment(slot) == slot.action = "triage_reassessment"
           triageVisits == SelectSeq(triageSlots, isVisit)
           reassessments == SelectSeq(triageSlots, isReassessment)
       IN SortByTime(triageVisitBillings(triageVisits, allowTriageVisit)
                     \o reassessmentBillings(reassessments)
                     \o triageExtras(triageSlots))

-----------------------------------------------------------------------------
(* Status-event billing builder *)

\* dbAll(... WHERE patient_id = ? AND status IN (...) ORDER BY occurred_at)
eventsByStatus(patientId, statuses) ==
  LET rows == RowsById({e \in patient_status_events :
                          e.patient_id = patientId /\ e.status \in statuses})
  IN StableSort(rows, [i \in 1..Len(rows) |-> rows[i].occurred_at])

\* Variant of the induction caps with the rolling-day count compared loosely.
inductionAllowed_loose(eventTime, inductionTimes) ==
  /\ Len(inductionTimes) < INDUCTION_TOTAL_LIMIT
  /\ Cardinality({i \in 1..Len(inductionTimes) :
                    /\ eventTime - inductionTimes[i] < INDUCTION_WINDOW_MIN
                    /\ eventTime >= inductionTimes[i]}) <= INDUCTION_DAILY_LIMIT

inductionAllowed(eventTime, inductionTimes) ==
  /\ Len(inductionTimes) < INDUCTION_TOTAL_LIMIT
  /\ Cardinality({i \in 1..Len(inductionTimes) :
                    /\ eventTime - inductionTimes[i] < INDUCTION_WINDOW_MIN
                    /\ eventTime >= inductionTimes[i]}) < INDUCTION_DAILY_LIMIT

RECURSIVE statusEventLoop(_, _, _)
statusEventLoop(events, inductionTimes, allowContinuousMonitoring) ==
  IF events = <<>> THEN <<>>
  ELSE LET event == Head(events)
           eventTime == toDate(event.occurred_at)
           rest == Tail(events)
           doctor == Doctor(event.doctor_id)
       IN IF eventTime = Null
          THEN statusEventLoop(rest, inductionTimes, allowContinuousMonitoring)
          ELSE IF event.status = "Induction"
          THEN IF inductionAllowed(eventTime, inductionTimes)
               THEN <<Billing(eventTime, "85.5A", afterHoursModifier(eventTime), doctor)>>
                    \o (IF event.induction_non_stress_test
                        THEN <<Billing(eventTime, "87.54A", "", doctor)>> ELSE <<>>)
                    \o statusEventLoop(rest, Append(inductionTimes, eventTime),
                                       allowContinuousMonitoring)
               ELSE statusEventLoop(rest, inductionTimes, allowContinuousMonitoring)
          ELSE IF event.status = "Continuous Monitoring" /\ allowContinuousMonitoring
          THEN <<Billing(eventTime, "87.54B", afterHoursModifier(eventTime), doctor)>>
               \o statusEventLoop(rest, inductionTimes, allowContinuousMonitoring)
          ELSE statusEventLoop(rest, inductionTimes, allowContinuousMonitoring)

buildStatusEventBillings(patientId, allowContinuousMonitoring) ==
  statusEventLoop(eventsByStatus(patientId, {"Induction", "Continuous Monitoring"}),
                  <<>>, allowContinuousMonitoring)

-----------------------------------------------------------------------------
(* Delivery and extras *)

normalizeDeliveryCode(slot) ==
  IF slot.delivery_code # "" THEN slot.delivery_code
  ELSE IF slot.delivery_by = "ob" THEN "87.98B"
  ELSE "87.98A"

\* Variant of the extras that never carry a modifier.
deliveryExtras_bare(slot, time, doctor, extraModifier) ==
  (IF slot.delivery_postpartum_hemorrhage
   THEN <<Billing(time, "87.99A", "", doctor)>> ELSE <<>>)
  \o (IF slot.delivery_vacuum
      THEN <<Billing(time, "84.21", "", doctor)>> ELSE <<>>)
  \o (IF slot.delivery_vaginal_laceration
      THEN <<Billing(time, "87.89B", "", doctor)>> ELSE <<>>)
  \o (IF slot.delivery_shoulder_dystocia
      THEN <<Billing(time, "85.69B", "", doctor)>> ELSE <<>>)
  \o (IF slot.delivery_manual_placenta
      THEN <<Billing(time, "87.6", "", doctor)>> ELSE <<>>)

deliveryExtras(slot, time, doctor, extraModifier) ==
  (IF slot.delivery_postpartum_hemorrhage
   THEN <<Billing(time, "87.99A", extraModifier, doctor)>> ELSE <<>>)
  \o (IF slot.delivery_vacuum
      THEN <<Billing(time, "84.21", extraModifier, doctor)>> ELSE <<>>)
  \o (IF slot.delivery_vaginal_laceration
      THEN <<Billing(time, "87.89B", extraModifier, doctor)>> ELSE <<>>)
  \o (IF slot.delivery_shoulder_dystocia
      THEN <<Billing(time, "85.69B", extraModifier, doctor)>> ELSE <<>>)
  \o (IF slot.delivery_manual_placenta
      THEN <<Billing(time, "87.6", extraModifier, doctor)>> ELSE <<>>)

-----------------------------------------------------------------------------
(* Supportive care and after-hours premium *)

Max(a, b) == IF a >= b THEN a ELSE b
Min(a, b) == IF a <= b THEN a ELSE b
Take(s, n) == SubSeq(s, 1, Min(n, Len(s)))
NthSmallest(S, k) == CHOOSE x \in S : Cardinality({y \in S : y < x}) = k - 1

RECURSIVE Join(_, _)
Join(parts, sep) ==
  IF parts = <<>> THEN ""
  ELSE IF Len(parts) = 1 THEN parts[1]
  ELSE parts[1] \o sep \o Join(Tail(parts), sep)

padStart2(n) == IF n < 10 THEN "0" \o ToString(n) ELSE ToString(n)

buildSupportiveCareBillings(p) ==
  IF p.patient_type = "baby" THEN <<>>
  ELSE LET babies == {b \in patients :
                        b.parent_patient_id = p.id /\ b.patient_type = "baby"}
           ids == {p.id} \cup (IF babies = {} THEN {}
                               ELSE {NthSmallest({b.id : b \in babies}, 1)})
           rows == RowsById({s \in shift_slots :
                               /\ s.patient_id \in ids
                               /\ (s.rounds_supportive_care \/ s.tongue_tie_supportive_care)})
           parsable(slot) == toDate(slot.start_time) # Null
           kept == SelectSeq(rows, parsable)
       IN [i \in 1..Len(kept) |->
             Billing(toDate(kept[i].start_time), "03.05M", "", Doctor(kept[i].doctor_id))]

\* The slots the forEach of buildAfterHoursPremiumBillings counts, in visiting
\* order: window by window, rows in rowid order, a (doctor, time) pair once.
premiumSlots(p, admitted, delivered, windows) ==
  LET perWindow(window) ==
        LET windowStart == Max(admitted, toDate(window.start_datetime))
            windowEnd == Min(delivered, toDate(window.end_datetime))
            rows == RowsById({s \in shift_slots :
                                /\ s.doctor_id = window.doctor_id
                                /\ s.patient_id = p.id
                                /\ s.start_time >= formatLocalDateTime(windowStart)
                                /\ s.start_time < formatLocalDateTime(windowEnd)})
            counted(slot) ==
              /\ toDate(slot.start_time) # Null
              /\ slot.action \in {"triage_visit", "triage_reassessment", "attended"}
              /\ afterHoursPremiumModifier(toDate(slot.start_time)) # ""
              /\ slot.doctor_id # NoDoctor
        IN IF windowStart >= windowEnd THEN <<>> ELSE SelectSeq(rows, counted)
      visited == Flatten([w \in 1..Len(windows) |-> perWindow(windows[w])])
      firstSeen == {i \in 1..Len(visited) :
                      \A j \in 1..(i - 1) :
                        ~(visited[j].doctor_id = visited[i].doctor_id
                          /\ visited[j].start_time = visited[i].start_time)}
  IN [k \in 1..Cardinality(firstSeen) |-> visited[NthSmallest(firstSeen, k)]]

PremiumKeys == <<"TEV", "TNTA", "TNTP", "TWK">>

buildAfterHoursPremiumBillings(p, admitted, delivered, activeShiftWindows) ==
  IF admitted = Null \/ delivered = Null \/ Len(activeShiftWindows) = 0 THEN <<>>
  ELSE
    LET counted == premiumSlots(p, admitted, delivered, activeShiftWindows)
        firstOfDoctor == {i \in 1..Len(counted) :
                            \A j \in 1..(i - 1) : counted[j].doctor_id # counted[i].doctor_id}
        bill(doctorId) ==
          LET times == {toDate(counted[i].start_time) :
                          i \in {j \in 1..Len(counted) : counted[j].doctor_id = doctorId}}
              count(key) == Cardinality({t \in times : afterHoursPremiumModifier(t) = key})
              present(key) == count(key) > 0
              keys == SelectSeq(PremiumKeys, present)
              modifiers == [k \in 1..Len(keys) |->
                              keys[k] \o " " \o padStart2(count(keys[k]))]
          IN Billing(NthSmallest(times, 1), "03.01AA", Join(modifiers, ", "),
                     Doctor(doctorId))
    IN [k \in 1..Cardinality(firstOfDoctor) |->
          bill(counted[NthSmallest(firstOfDoctor, k)].doctor_id)]

-----------------------------------------------------------------------------
(* Callback billing builder *)

NoCallback == [billings |-> <<>>, slotTime |-> Null, total |-> 0]

\* Variant of the lookup that takes the first slot of this patient in the
\* window, whoever the doctor saw before.
callbackInfoForWindow_own(p, window) ==
  LET rows == {s \in shift_slots :
                 /\ s.doctor_id = window.doctor_id
                 /\ s.start_time >= window.start_datetime
                 /\ s.start_time < window.end_datetime
                 /\ s.patient_id = p.id
                 /\ s.action # ""}
  IN IF rows = {} THEN NoCallback
     ELSE
       LET firstSlot == CHOOSE s \in rows : \A o \in rows :
                          \/ s.start_time < o.start_time
                          \/ (s.start_time = o.start_time /\ s.id <= o.id)
           slotTime == toDate(firstSlot.start_time)
           doctor == Doctor(firstSlot.doctor_id)
           admittedAt == toDate(p.care_admitted_at)
       IN IF firstSlot.patient_id # p.id \/ slotTime = Null THEN NoCallback
          ELSE IF firstSlot.action \in {"triage_visit", "triage_reassessment"}
          THEN [billings |-> <<Billing(slotTime, callbackCodeForTriage(slotTime), "", doctor)>>,
                slotTime |-> slotTime,
                total |-> triageCallbackValue(callbackCodeForTriage(slotTime))]
          ELSE IF admittedAt # Null /\ slotTime >= admittedAt
          THEN [billings |-> <<Billing(slotTime, "03.03DF", "", doctor),
                               Billing(slotTime, callbackCodeForInpatient(slotTime), "", doctor)>>,
                slotTime |-> slotTime,
                total |-> inpatientCallbackValue(callbackCodeForInpatient(slotTime))]
          ELSE [billings |-> <<>>, slotTime |-> slotTime, total |-> 0]

callbackInfoForWindow(p, window) ==
  LET rows == {s \in shift_slots :
                 /\ s.doctor_id = window.doctor_id
                 /\ s.start_time >= window.start_datetime
                 /\ s.start_time < window.end_datetime
                 /\ s.patient_id # NoPatient
                 /\ s.action # ""}
  IN IF rows = {} THEN NoCallback
     ELSE
       LET firstSlot == CHOOSE s \in rows : \A o \in rows :
                          \/ s.start_time < o.start_time
                          \/ (s.start_time = o.start_time /\ s.id <= o.id)
           slotTime == toDate(firstSlot.start_time)
           doctor == Doctor(firstSlot.doctor_id)
           admittedAt == toDate(p.care_admitted_at)
       IN IF firstSlot.patient_id # p.id \/ slotTime = Null THEN NoCallback
          ELSE IF firstSlot.action \in {"triage_visit", "triage_reassessment"}
          THEN [billings |-> <<Billing(slotTime, callbackCodeForTriage(slotTime), "", doctor)>>,
                slotTime |-> slotTime,
                total |-> triageCallbackValue(callbackCodeForTriage(slotTime))]
          ELSE IF admittedAt # Null /\ slotTime >= admittedAt
          THEN [billings |-> <<Billing(slotTime, "03.03DF", "", doctor),
                               Billing(slotTime, callbackCodeForInpatient(slotTime), "", doctor)>>,
                slotTime |-> slotTime,
                total |-> inpatientCallbackValue(callbackCodeForInpatient(slotTime))]
          ELSE [billings |-> <<>>, slotTime |-> slotTime, total |-> 0]

buildCallbackBillingInfo(p, activeShiftWindows) ==
  LET hasBillings(info) == Len(info.billings) > 0
  IN SelectSeq([w \in 1..Len(activeShiftWindows) |->
                  callbackInfoForWindow(p, activeShiftWindows[w])],
               hasBillings)

-----------------------------------------------------------------------------
(* Orchestrator: the steps of buildOptimizedBillings *)

\* The later of delivered and the latest Triage event / second_triage_at after it.
triageCutoffOf(p, delivered) ==
  LET after == {toDate(e.occurred_at) :
                  e \in {x \in patient_status_events :
                           /\ x.patient_id = p.id
                           /\ x.status = "Triage"
                           /\ toDate(x.occurred_at) # Null
                           /\ toDate(x.occurred_at) > delivered}}
               \cup (IF toDate(p.second_triage_at) # Null
                        /\ toDate(p.second_triage_at) > delivered
                     THEN {toDate(p.second_triage_at)} ELSE {})
  IN IF after = {} THEN delivered
     ELSE CHOOSE t \in after : \A u \in after : u <= t

\* Variant of the check that never finds a blocking induction.
allowTriageVisitOf_always(p, triageSlots, admitted) ==
  TRUE

allowTriageVisitOf(p, triageSlots, admitted) ==
  LET isVisit(slot) == slot.action = "triage_visit"
      triageVisitSlots == SelectSeq(triageSlots, isVisit)
  IN IF Len(triageVisitSlots) = 0 THEN TRUE
     ELSE
       LET firstTriageVisit == StableSort(triageVisitSlots, slotTimes(triageVisitSlots))[1]
           triageVisitDoctors == {triageVisitSlots[i].doctor_id :
                                    i \in 1..Len(triageVisitSlots)} \ {NoDoctor}
           blocking(event) ==
             LET eventTime == toDate(event.occurred_at)
             IN /\ eventTime # Null
                /\ eventTime < admitted
                /\ isSameDate(eventTime, toDate(firstTriageVisit.start_time))
                /\ IF event.doctor_id # NoDoctor
                   THEN event.doctor_id \in triageVisitDoctors
                   ELSE triageVisitDoctors # {}
       IN ~\E event \in patient_status_events :
             event.patient_id = p.id /\ event.status = "Induction" /\ blocking(event)

scopedSlotsOf(patientSlots, admitted, delivered) ==
  LET inScope(slot) ==
        /\ toDate(slot.start_time) # Null
        /\ toDate(slot.start_time) >= admitted
        /\ toDate(slot.start_time) <= delivered
  IN SelectSeq(patientSlots, inScope)

\* sortedScoped.find(action = delivery): the slot in a one-element list, or <<>>.
deliverySlotOf(sortedScoped) ==
  LET isDelivery(slot) == slot.action = "delivery"
  IN Take(SelectSeq(sortedScoped, isDelivery), 1)

deliveredTimeOf(deliverySlot) ==
  IF deliverySlot = <<>> THEN Null
  ELSE IF toDate(deliverySlot[1].delivery_time) # Null
  THEN toDate(deliverySlot[1].delivery_time)
  ELSE toDate(deliverySlot[1].start_time)

deliveryCodeOf(deliverySlot) ==
  IF deliverySlot = <<>> THEN "87.98A" ELSE normalizeDeliveryCode(deliverySlot[1])

-----------------------------------------------------------------------------
(* OB / VBAC attended-call path *)

\* Variant of the filter that keeps the slots with action 'attended' only.
obAttended_attendedOnly(sortedScoped, deliveredTime) ==
  LET keep(slot) ==
        /\ slot.doctor_id # NoDoctor
        /\ toDate(slot.start_time) # Null
        /\ slot.action = "attended"
        /\ ~(deliveredTime # Null /\ toDate(slot.start_time) = deliveredTime)
  IN SelectSeq(sortedScoped, keep)

obAttended(sortedScoped, deliveredTime) ==
  LET keep(slot) ==
        /\ slot.doctor_id # NoDoctor
        /\ toDate(slot.start_time) # Null
        /\ slot.action # "delivery"
        /\ ~(deliveredTime # Null /\ toDate(slot.start_time) = deliveredTime)
  IN SelectSeq(sortedScoped, keep)

\* The scan for the first pair 14 to 16 minutes apart (inside the primary
\* shift window when there is one): the set of its two time keys, or {}.
coinptTimesOf(attended, windows) ==
  LET qualifies(i) ==
        LET firstTime == toDate(attended[i].start_time)
            secondTime == toDate(attended[i + 1].start_time)
            gap == secondTime - firstTime
        IN /\ gap >= 14 /\ gap <= 16
           /\ \/ Len(windows) = 0
              \/ LET windowStart == toDate(windows[1].start_datetime)
                     windowEnd == toDate(windows[1].end_datetime)
                 IN /\ windowStart # Null /\ windowEnd # Null
                    /\ firstTime >= windowStart /\ firstTime < windowEnd
                    /\ secondTime >= windowStart /\ secondTime < windowEnd
      hits == {i \in 1..(Len(attended) - 1) : qualifies(i)}
  IN IF hits = {} THEN {}
     ELSE LET i == NthSmallest(hits, 1)
          IN {formatLocalDateTime(toDate(attended[i].start_time)),
              formatLocalDateTime(toDate(attended[i + 1].start_time))}

obCallBillings(attended, coinptTimes) ==
  [i \in 1..Len(attended) |->
     Billing(toDate(attended[i].start_time), "03.03AR",
             IF formatLocalDateTime(toDate(attended[i].start_time)) \in coinptTimes
             THEN "COINPT" ELSE "",
             Doctor(attended[i].doctor_id))]

obDeliveryBillings(deliverySlot, deliveredTime, deliveryCode, shiftDoctor) ==
  IF deliveredTime = Null THEN <<>>
  ELSE LET slot == deliverySlot[1]
           doctor == IF slot.doctor_id # NoDoctor THEN Doctor(slot.doctor_id) ELSE shiftDoctor
           bmiproMod == IF slot.delivery_bmipro THEN "BMIPRO" ELSE ""
       IN <<Billing(deliveredTime, deliveryCode,
                    appendModifier(afterHoursModifier(deliveredTime), bmiproMod), doctor)>>
          \o deliveryExtras(slot, deliveredTime, doctor, bmiproMod)

-----------------------------------------------------------------------------
(* Ghost / ideal-slot scheduler (13.99JA) *)

JaBilling(time, modifier, doctor, priority, weight) ==
  [time |-> time, code |-> "13.99JA", modifier |-> modifier, doctor |-> doctor,
   jaPriority |-> priority, jaWeight |-> weight]

otherPatientsOf(p) ==
  {q \in patients : /\ q.id # p.id
                    /\ q.care_admitted_at # Missing /\ q.care_delivered_at # Missing
                    /\ toDate(q.care_admitted_at) # Null
                    /\ toDate(q.care_delivered_at) # Null}

obVbacIds == {s.patient_id : s \in {x \in shift_slots :
                                      x.delivery_code \in {"87.98B", "87.98C"}}}

\* attendedTimes of one window: this doctor's attended slots of the patient
\* inside the clamped window, ascending.
attendedTimesOf(scopedSlots, shiftDoctor, windowStart, windowEnd) ==
  LET mine(slot) ==
        /\ slot.action = "attended"
        /\ slot.doctor_id = shiftDoctor
        /\ toDate(slot.start_time) # Null
        /\ toDate(slot.start_time) >= windowStart
        /\ toDate(slot.start_time) < windowEnd
      times == slotTimes(SelectSeq(scopedSlots, mine))
  IN StableSort(times, times)

\* Variant of the grouping that opens an encounter at every attended slot.
encounterStartsOf_every(attendedTimes) ==
  Range(attendedTimes)

encounterStartsOf(attendedTimes) ==
  {attendedTimes[i] : i \in {j \in 1..Len(attendedTimes) :
                               j = 1 \/ attendedTimes[j] - attendedTimes[j - 1] > 15}}

\* Variant of the alignment that starts the walk at the window start as it is.
alignedStartOf_unfloored(windowStart, shiftStart) ==
  windowStart

alignedStartOf(windowStart, shiftStart) ==
  IF floorToQuarter(windowStart) < shiftStart THEN shiftStart
  ELSE floorToQuarter(windowStart)

\* The candidate slot times: the quarter-hour walk minus the delivery buffer.
candidateSlots(alignedStart, windowEnd, deliveryCutoff) ==
  LET cutoffStart == deliveryCutoff - DELIVERY_BUFFER_MINUTES
      keep(slotTime) ==
        /\ slotTime # deliveryCutoff
        /\ ~(slotTime >= cutoffStart /\ slotTime < deliveryCutoff)
  IN SelectSeq(generateSlots(alignedStart, windowEnd), keep)

\* Variant of the count that takes every overlapping patient, wherever the
\* slot lies.
getContention_overlap(slotTime, overlappingPatients) ==
  Cardinality(overlappingPatients)

getContention(slotTime, overlappingPatients) ==
  Cardinality({q \in overlappingPatients :
     LET qAdmitted == toDate(q.care_admitted_at)
         qDelivered == toDate(q.care_delivered_at)
         cutoffStart == qDelivered - DELIVERY_BUFFER_MINUTES
     IN /\ ~(slotTime < qAdmitted \/ slotTime > qDelivered)
        /\ ~(slotTime >= cutoffStart /\ slotTime < qDelivered)})

buildJaBillingsForWindow(window, p, admitted, delivered, scopedSlots, deliveredTime) ==
  LET shiftDoctor == Doctor(window.doctor_id)
      windowStart == Max(admitted, toDate(window.start_datetime))
      windowEnd == Min(delivered, toDate(window.end_datetime))
  IN IF shiftDoctor = NoDoctor \/ windowStart >= windowEnd THEN <<>>
     ELSE
  LET attendedTimes == attendedTimesOf(scopedSlots, shiftDoctor, windowStart, windowEnd)
      encounterStartKeys == encounterStartsOf(attendedTimes)
      attendedKeys == Range(attendedTimes)
      alignedStart == alignedStartOf(windowStart, toDate(window.start_datetime))
      deliveryCutoff == IF deliveredTime # Null THEN deliveredTime ELSE delivered
      slots == candidateSlots(alignedStart, windowEnd, deliveryCutoff)
      slotKeys == Range(slots)
      occupiedKeys == {toDate(s.start_time) :
                         s \in {x \in shift_slots :
                                  /\ x.doctor_id = shiftDoctor
                                  /\ x.start_time >= formatLocalDateTime(windowStart)
                                  /\ x.start_time < formatLocalDateTime(windowEnd)}}
      \* encounter starts: weight descending, then time ascending; the first 12
      encounterList == SelectSeq(slots, LAMBDA t : t \in encounterStartKeys)
      encounterSlots ==
        StableSort(encounterList,
                   [i \in 1..Len(encounterList) |->
                      (3 - timeModifier(encounterList[i]).weight) * 1000000
                      + encounterList[i]])
      selectedEncounters == Range(Take(encounterSlots, JA_CAP))
      \* other attended slots by time, while fewer than 12 are selected
      attendedNonModifiable ==
        SelectSeq(slots, LAMBDA t : t \in attendedKeys /\ t \notin encounterStartKeys)
      selectedAttended ==
        selectedEncounters
        \cup Range(Take(attendedNonModifiable, JA_CAP - Cardinality(selectedEncounters)))
      remaining == JA_CAP - Cardinality(selectedAttended)
      overlappingPatients ==
        {q \in otherPatientsOf(p) :
           /\ q.id \notin obVbacIds
           /\ toDate(q.care_delivered_at) > windowStart
           /\ toDate(q.care_admitted_at) < windowEnd}
      free == SelectSeq(slots, LAMBDA t : t \notin selectedAttended /\ t \notin occupiedKeys)
      ghostCandidates ==
        Take(StableSort(free,
                        [i \in 1..Len(free) |->
                           getContention(free[i], overlappingPatients) * 10000000
                           + (3 - timeModifier(free[i]).weight) * 1000000
                           + free[i]]),
             remaining)
      selected == IF remaining <= 0 THEN selectedAttended
                  ELSE selectedAttended \cup Range(ghostCandidates)
      chosen == SelectSeq(slots, LAMBDA t : t \in selected)
      entry(slotTime) ==
        LET isModifiable == slotTime \in encounterStartKeys
            isAttended == slotTime \in attendedKeys
        IN JaBilling(slotTime,
                     IF isModifiable THEN timeModifier(slotTime).modifier ELSE "",
                     shiftDoctor,
                     IF isModifiable THEN 2 ELSE IF isAttended THEN 1 ELSE 0,
                     IF isModifiable THEN timeModifier(slotTime).weight ELSE 0)
  IN IF Len(slots) = 0 THEN <<>>
     ELSE [i \in 1..Len(chosen) |-> entry(chosen[i])]

\* Variant of the global cap that keeps the 12 earliest entries.
capJaBillings_byTime(jaBillings) ==
  Take(StableSort(jaBillings, [i \in 1..Len(jaBillings) |-> jaBillings[i].time]),
       JA_CAP)

\* Variant of the global cap that orders the entries and keeps them all.
capJaBillings_uncut(jaBillings) ==
  StableSort(jaBillings,
             [i \in 1..Len(jaBillings) |->
                (2 - jaBillings[i].jaPriority) * 10000000
                + (3 - jaBillings[i].jaWeight) * 1000000
                + jaBillings[i].time])

\* The global cap: priority, then weight, then time; the first 12.
capJaBillings(jaBillings) ==
  Take(StableSort(jaBillings,
                  [i \in 1..Len(jaBillings) |->
                     (2 - jaBillings[i].jaPriority) * 10000000
                     + (3 - jaBillings[i].jaWeight) * 1000000
                     + jaBillings[i].time]),
       JA_CAP)

cleanJaBilling(b) == Billing(b.time, b.code, b.modifier, b.doctor)

ghostDeliveryBillings(deliverySlot, deliveredTime, deliveryCode, windows) ==
  LET primaryStart == toDate(windows[1].start_datetime)
      primaryEnd == toDate(windows[1].end_datetime)
  IN IF /\ deliveredTime # Null /\ primaryStart # Null /\ primaryEnd # Null
        /\ deliveredTime >= primaryStart /\ deliveredTime <= primaryEnd
     THEN LET slot == deliverySlot[1]
              doctor == IF slot.doctor_id # NoDoctor THEN Doctor(slot.doctor_id)
                        ELSE Doctor(windows[1].doctor_id)
              bmiproMod == IF slot.delivery_bmipro THEN "BMIPRO" ELSE ""
          IN <<Billing(deliveredTime, deliveryCode,
                       appendModifier(afterHoursModifier(deliveredTime), bmiproMod), doctor)>>
             \o deliveryExtras(slot, deliveredTime, doctor, bmiproMod)
     ELSE <<>>

isGhostBefore(billing, slotTime) ==
  billing.code = "13.99JA" /\ billing.modifier = "" /\ billing.time < slotTime

\* Variant of the merge where the callback wins when the entries before it are
\* worth more, and is left out otherwise.
RECURSIVE mergeCallbacks_callbackWins(_, _, _)
mergeCallbacks_callbackWins(sortedCallbacks, filteredBillings, callbackBillings) ==
  IF sortedCallbacks = <<>>
  THEN [filteredBillings |-> filteredBillings, callbackBillings |-> callbackBillings]
  ELSE LET info == Head(sortedCallbacks)
           ghostBeforeCallback ==
             SelectSeq(filteredBillings, LAMBDA b : isGhostBefore(b, info.slotTime))
           ghostTotal == Len(ghostBeforeCallback) * JA_VALUE
       IN IF ghostTotal <= info.total
          THEN mergeCallbacks_callbackWins(Tail(sortedCallbacks), filteredBillings,
                                           callbackBillings)
          ELSE mergeCallbacks_callbackWins(Tail(sortedCallbacks),
                                           SelectSeq(filteredBillings,
                                                     LAMBDA b : ~isGhostBefore(b, info.slotTime)),
                                           callbackBillings \o info.billings)

\* The forEach over the callbacks in slot-time order: a callback is merged, and
\* the unmodified 13.99JA entries before it dropped, unless they are worth more.
RECURSIVE mergeCallbacks(_, _, _)
mergeCallbacks(sortedCallbacks, filteredBillings, callbackBillings) ==
  IF sortedCallbacks = <<>>
  THEN [filteredBillings |-> filteredBillings, callbackBillings |-> callbackBillings]
  ELSE LET info == Head(sortedCallbacks)
           ghostBeforeCallback ==
             SelectSeq(filteredBillings, LAMBDA b : isGhostBefore(b, info.slotTime))
           ghostTotal == Len(ghostBeforeCallback) * JA_VALUE
       IN IF ghostTotal > info.total
          THEN mergeCallbacks(Tail(sortedCallbacks), filteredBillings, callbackBillings)
          ELSE mergeCallbacks(Tail(sortedCallbacks),
                              SelectSeq(filteredBillings,
                                        LAMBDA b : ~isGhostBefore(b, info.slotTime)),
                              callbackBillings \o info.billings)

-----------------------------------------------------------------------------
(* The three return paths and the engine *)

IsJa(billing) == billing.code = "13.99JA"

obPath(p, attended, coinptTimes, deliveryBillings, triageBillings, callbackInfos, afterHoursBillings) ==
  SortByTime(obCallBillings(attended, coinptTimes)
             \o deliveryBillings
             \o triageBillings
             \o buildStatusEventBillings(p.id, TRUE)
             \o Flatten([i \in 1..Len(callbackInfos) |-> callbackInfos[i].billings])
             \o afterHoursBillings
             \o buildSupportiveCareBillings(p))

\* Variant of the path whose list outlives the call: the lines of the last
\* call are still in it when the next call appends its own.
noShiftPath_accumulating(p, triageBillings, afterHoursBillings) ==
  SortByTime(result
             \o triageBillings
             \o buildStatusEventBillings(p.id, TRUE)
             \o afterHoursBillings
             \o buildSupportiveCareBillings(p))

\* Variant of the path that bills the delivery from care_delivered_at.
noShiftPath_delivery(p, triageBillings, afterHoursBillings) ==
  SortByTime(triageBillings
             \o buildStatusEventBillings(p.id, TRUE)
             \o afterHoursBillings
             \o buildSupportiveCareBillings(p)
             \o <<Billing(toDate(p.care_delivered_at), "87.98A", "", NoDoctor)>>)

noShiftPath(p, triageBillings, afterHoursBillings) ==
  SortByTime(triageBillings
             \o buildStatusEventBillings(p.id, TRUE)
             \o afterHoursBillings
             \o buildSupportiveCareBillings(p))

\* Variant of the ghost path that returns the concatenation as it stands.
ghostPath_unsorted(p, jaBillings, deliveryBillings, triageBillings, callbackInfos, afterHoursBillings) ==
  LET capped == capJaBillings(jaBillings)
      cleaned == [i \in 1..Len(capped) |-> cleanJaBilling(capped[i])]
      timed == SelectSeq(callbackInfos, LAMBDA info : info.slotTime # Null)
      sortedCallbacks == StableSort(timed, [i \in 1..Len(timed) |-> timed[i].slotTime])
      merged == mergeCallbacks(sortedCallbacks, deliveryBillings \o cleaned, <<>>)
      has1399JA == \E i \in 1..Len(merged.filteredBillings) : IsJa(merged.filteredBillings[i])
  IN merged.filteredBillings
     \o triageBillings
     \o buildStatusEventBillings(p.id, ~has1399JA)
     \o merged.callbackBillings
     \o afterHoursBillings
     \o buildSupportiveCareBillings(p)

\* Variant of the ghost path that bills Continuous Monitoring regardless of the
\* 13.99JA entries that survive.
ghostPath_monitoring(p, jaBillings, deliveryBillings, triageBillings, callbackInfos, afterHoursBillings) ==
  LET capped == capJaBillings(jaBillings)
      cleaned == [i \in 1..Len(capped) |-> cleanJaBilling(capped[i])]
      timed == SelectSeq(callbackInfos, LAMBDA info : info.slotTime # Null)
      sortedCallbacks == StableSort(timed, [i \in 1..Len(timed) |-> timed[i].slotTime])
      merged == mergeCallbacks(sortedCallbacks, deliveryBillings \o cleaned, <<>>)
  IN SortByTime(merged.filteredBillings
                \o triageBillings
                \o buildStatusEventBillings(p.id, TRUE)
                \o merged.callbackBillings
                \o afterHoursBillings
                \o buildSupportiveCareBillings(p))

ghostPath(p, jaBillings, deliveryBillings, triageBillings, callbackInfos, afterHoursBillings) ==
  LET capped == capJaBillings(jaBillings)
      cleaned == [i \in 1..Len(capped) |-> cleanJaBilling(capped[i])]
      timed == SelectSeq(callbackInfos, LAMBDA info : info.slotTime # Null)
      sortedCallbacks == StableSort(timed, [i \in 1..Len(timed) |-> timed[i].slotTime])
      merged == mergeCallbacks(sortedCallbacks, deliveryBillings \o cleaned, <<>>)
      has1399JA == \E i \in 1..Len(merged.filteredBillings) : IsJa(merged.filteredBillings[i])
  IN SortByTime(merged.filteredBillings
                \o triageBillings
                \o buildStatusEventBillings(p.id, ~has1399JA)
                \o merged.callbackBillings
                \o afterHoursBillings
                \o buildSupportiveCareBillings(p))

\* activeShiftWindows.flatMap(buildJaBillingsForWindow): the 13.99JA entries of
\* every window, in window order, before the global cap.
jaBillingsOf(p, patientSlots, activeShiftWindows) ==
  LET admitted == toDate(p.care_admitted_at)
      delivered == toDate(p.care_delivered_at)
      scopedSlots == scopedSlotsOf(patientSlots, admitted, delivered)
      sortedScoped == StableSort(scopedSlots, slotTimes(scopedSlots))
      deliveredTime == deliveredTimeOf(deliverySlotOf(sortedScoped))
  IN Flatten([w \in 1..Len(activeShiftWindows) |->
                buildJaBillingsForWindow(activeShiftWindows[w], p, admitted,
                                         delivered, scopedSlots, deliveredTime)])

\* Variant of the guard that lets admitted = delivered through.
preconditionFails_strict(admitted, delivered) ==
  admitted = Null \/ delivered = Null \/ admitted > delivered

preconditionFails(admitted, delivered) ==
  admitted = Null \/ delivered = Null \/ admitted >= delivered

buildOptimizedBillings(p, patientSlots, activeShiftWindows) ==
  LET admitted == toDate(p.care_admitted_at)
      delivered == toDate(p.care_delivered_at)
  IN IF preconditionFails(admitted, delivered) THEN <<>>
     ELSE
  LET triageCutoff == triageCutoffOf(p, delivered)
      triageSlots == collectTriageSlots(patientSlots, triageCutoff)
      allowTriageVisit == allowTriageVisitOf(p, triageSlots, admitted)
      scopedSlots == scopedSlotsOf(patientSlots, admitted, delivered)
      triageBillings == buildTriageBillings(triageSlots, allowTriageVisit)
      afterHoursBillings ==
        buildAfterHoursPremiumBillings(p, admitted, delivered, activeShiftWindows)
      sortedScoped == StableSort(scopedSlots, slotTimes(scopedSlots))
      deliverySlot == deliverySlotOf(sortedScoped)
      deliveredTime == deliveredTimeOf(deliverySlot)
      deliveryCode == deliveryCodeOf(deliverySlot)
      deliveredByOb == deliverySlot # <<>> /\ deliveryCode = "87.98B"
      deliveredByVbac == deliverySlot # <<>> /\ deliveryCode = "87.98C"
      callbackInfos == buildCallbackBillingInfo(p, activeShiftWindows)
  IN IF deliveredByOb \/ deliveredByVbac
     THEN LET attended == obAttended(sortedScoped, deliveredTime)
              shiftDoctor == IF Len(activeShiftWindows) > 0
                             THEN Doctor(activeShiftWindows[1].doctor_id) ELSE NoDoctor
          IN obPath(p, attended, coinptTimesOf(attended, activeShiftWindows),
                    obDeliveryBillings(deliverySlot, deliveredTime, deliveryCode, shiftDoctor),
                    triageBillings, callbackInfos, afterHoursBillings)
     ELSE IF Len(activeShiftWindows) = 0
     THEN noShiftPath(p, triageBillings, afterHoursBillings)
     ELSE ghostPath(p,
                    jaBillingsOf(p, patientSlots, activeShiftWindows),
                    ghostDeliveryBillings(deliverySlot, deliveredTime, deliveryCode,
                                          activeShiftWindows),
                    triageBillings, callbackInfos, afterHoursBillings)

\* A null patient argument.
NullPatient == [id |-> NoPatient]

\* toDate(window.start_datetime).getTime() and toDate(window.end_datetime)
\* .getTime() on a window whose start or end does not parse: a TypeError.
windowThrows(activeShiftWindows) ==
  \E w \in 1..Len(activeShiftWindows) :
     \/ toDate(activeShiftWindows[w].start_datetime) = Null
     \/ toDate(activeShiftWindows[w].end_datetime) = Null

\* The TypeErrors of the engine: patient.care_admitted_at read from a null
\* patient, and the windows' dates read once the precondition has passed.
engineThrows(p, activeShiftWindows) ==
  \/ p = NullPatient
  \/ /\ p # NullPatient
     /\ ~preconditionFails(toDate(p.care_admitted_at), toDate(p.care_delivered_at))
     /\ windowThrows(activeShiftWindows)

-----------------------------------------------------------------------------
(* The caller: routes/optimization *)

getTriageWindowEnd(p, deliveredAt) ==
  LET triage == {toDate(e.occurred_at) :
                   e \in {x \in patient_status_events :
                            /\ x.patient_id = p.id /\ x.status = "Triage"
                            /\ toDate(x.occurred_at) # Null}}
                \cup (IF toDate(p.second_triage_at) # Null
                      THEN {toDate(p.second_triage_at)} ELSE {})
      latestTriage == IF triage = {} THEN Null
                      ELSE CHOOSE t \in triage : \A u \in triage : u <= t
  IN IF latestTriage # Null /\ deliveredAt # Null /\ latestTriage > deliveredAt
     THEN latestTriage ELSE deliveredAt

\* SELECT * FROM shift_slots WHERE patient_id = ? AND start_time >= ? AND
\* start_time <= ? ORDER BY start_time (a NULL bound selects nothing).
patientSlotsFor(p) ==
  LET admitted == toDate(p.care_admitted_at)
      delivered == toDate(p.care_delivered_at)
      startPoint == IF toDate(p.start_datetime) # Null THEN toDate(p.start_datetime)
                    ELSE admitted
      triageWindowEnd == getTriageWindowEnd(p, delivered)
      lower == formatLocalDateTime(startPoint)
      upper == formatLocalDateTime(triageWindowEnd)
      rows == RowsById({s \in shift_slots :
                          /\ lower # Null /\ upper # Null
                          /\ s.patient_id = p.id
                          /\ s.start_time >= lower /\ s.start_time <= upper})
  IN StableSort(rows, [i \in 1..Len(rows) |-> rows[i].start_time])

-----------------------------------------------------------------------------
(* Rows *)

\* Minute of day `day` (0 = Monday 2024-01-01) at hour:minute.
At(day, hour, minute) == day * MinutesPerDay + hour * 60 + minute

Slot(id, doctor_id, patient_id, start_time, action) ==
  [id |-> id, doctor_id |-> doctor_id, patient_id |-> patient_id,
   start_time |-> start_time, action |-> action,
   delivery_by |-> "", delivery_code |-> "", delivery_time |-> Missing,
   delivery_bmipro |-> FALSE, delivery_postpartum_hemorrhage |-> FALSE,
   delivery_vacuum |-> FALSE, delivery_vaginal_laceration |-> FALSE,
   delivery_shoulder_dystocia |-> FALSE, delivery_manual_placenta |-> FALSE,
   triage_non_stress_test |-> FALSE, triage_speculum_exam |-> FALSE,
   rounds_care_type |-> "", rounds_supportive_care |-> FALSE,
   tongue_tie_supportive_care |-> FALSE, locked |-> 0]

Event(id, patient_id, status, occurred_at, doctor_id) ==
  [id |-> id, patient_id |-> patient_id, status |-> status,
   occurred_at |-> occurred_at, doctor_id |-> doctor_id,
   induction_non_stress_test |-> FALSE]

Window(id, doctor_id, start_datetime, end_datetime) ==
  [id |-> id, doctor_id |-> doctor_id,
   start_datetime |-> start_datetime, end_datetime |-> end_datetime]

Patient(id, patient_type, parent, start_datetime, admitted, delivered) ==
  [id |-> id, patient_type |-> patient_type, parent_patient_id |-> parent,
   start_datetime |-> start_datetime, care_admitted_at |-> admitted,
   care_delivered_at |-> delivered, second_triage_at |-> Missing]

-----------------------------------------------------------------------------
(* Inputs of the engine: one care episode of patient 1 on Monday, day 0.    *)
(* Patient 2 is another mother on the ward; the doctors are 1 and 2.        *)

\* No shift has been started: no window on record, nobody on shift.
NoShift ==
  /\ shift_windows = {}
  /\ is_on_shift = [d \in doctors |-> 0]
  /\ served = 0

\* No billing has been confirmed: every patient on record is active.
NoLedger ==
  /\ ghost_ja_locks = {}
  /\ confirmed_billings = {}
  /\ patients_status = [id \in {p.id : p \in patients} |-> "active"]

MaxSlots == 2
MaxEvents == 1

AdmittedValues == {Missing, Unparsable, At(0, 8, 0), At(0, 16, 0)}
DeliveredValues == {Missing, Unparsable, At(0, 8, 0), At(0, 14, 0), At(0, 18, 10)}

\* The (admitted, delivered) pairs with both times readable and in order, and
\* the pairs that lack a time or have them out of order.
Episodes ==
  {e \in AdmittedValues \X DeliveredValues : e[1] >= 0 /\ e[2] >= 0 /\ e[1] < e[2]}
BrokenEpisodes == (AdmittedValues \X DeliveredValues) \ Episodes

W1 == Window(1, 1, At(0, 8, 0), At(0, 20, 0))
W2 == Window(2, 2, At(0, 7, 0), At(0, 13, 0))
W3 == Window(3, 1, At(0, 10, 0), At(0, 22, 0))

\* What getShiftWindowsForRange can hand over: nothing, one window, windows of
\* two doctors, two overlapping windows of one doctor.
WindowChoices ==
  {<<>>, <<W1>>, <<W2>>, <<W1, W2>>, <<W2, W1>>, <<W1, W3>>}

SlotPalette ==
  {Slot(1, 1, 1, At(0, 8, 0), "attended"),
   Slot(2, 1, 1, At(0, 8, 15), "attended"),
   Slot(3, 2, 1, At(0, 8, 0), "attended"),
   Slot(4, 1, 1, At(0, 9, 0), "attended"),
   Slot(5, 1, 1, At(0, 17, 0), "attended"),
   Slot(6, 2, 1, At(0, 7, 30), "triage_visit"),
   [Slot(7, 1, 1, At(0, 7, 45), "triage_reassessment")
      EXCEPT !.triage_non_stress_test = TRUE],
   Slot(8, 1, 2, At(0, 8, 30), "triage_visit"),
   [Slot(9, 1, 1, At(0, 10, 0), "rounds")
      EXCEPT !.rounds_care_type = "daily_inpatient_care", !.rounds_supportive_care = TRUE]}

\* The delivery slot the shift grid writes: on the quarter hour of the delivery,
\* with the exact time in delivery_time.
DeliverySlot(delivered, code, bmipro, vacuum, dystocia, hemorrhage) ==
  [Slot(10, 1, 1, floorToQuarter(delivered), "delivery")
     EXCEPT !.delivery_code = code, !.delivery_time = delivered,
            !.delivery_bmipro = bmipro, !.delivery_vacuum = vacuum,
            !.delivery_shoulder_dystocia = dystocia,
            !.delivery_postpartum_hemorrhage = hemorrhage]

DeliveryChoices(delivered) ==
  IF toDate(delivered) = Null THEN {{}}
  ELSE {{},
        {DeliverySlot(delivered, "", FALSE, TRUE, TRUE, FALSE)},
        {DeliverySlot(delivered, "87.98A", TRUE, FALSE, FALSE, TRUE)},
        {DeliverySlot(delivered, "87.98B", TRUE, TRUE, FALSE, FALSE)}}

EventPalette ==
  {Event(1, 1, "Continuous Monitoring", At(0, 9, 30), 1),
   Event(2, 1, "Induction", At(0, 7, 0), 2),
   Event(3, 1, "Induction", At(0, 17, 30), NoDoctor)}

Mother(admitted, delivered) ==
  Patient(1, "mother", NoPatient, At(0, 7, 0), admitted, delivered)

OtherMother == Patient(2, "mother", NoPatient, At(0, 8, 0), At(0, 11, 0), At(0, 13, 0))

Subsets(S, n) == {T \in SUBSET S : Cardinality(T) <= n}

\* An episode the engine works on.
InitEpisode ==
  /\ \E e \in Episodes :
       /\ patient = Mother(e[1], e[2])
       /\ \E chosen \in Subsets(SlotPalette, MaxSlots), delivery \in DeliveryChoices(e[2]) :
            shift_slots = chosen \cup delivery
  /\ patient_status_events \in Subsets(EventPalette, MaxEvents)
  /\ activeShiftWindow \in WindowChoices

\* An episode the engine refuses.
InitBrokenEpisode ==
  /\ \E e \in BrokenEpisodes :
       /\ patient = Mother(e[1], e[2])
       /\ \E chosen \in Subsets(SlotPalette, 1), delivery \in DeliveryChoices(e[2]) :
            shift_slots = chosen \cup delivery
  /\ patient_status_events \in Subsets(EventPalette, MaxEvents)
  /\ activeShiftWindow \in {<<>>, <<W1>>, <<W1, W2>>}

Init ==
  /\ InitEpisode \/ InitBrokenEpisode
  /\ patients = {patient, OtherMother}
  /\ doctors = {1, 2}
  /\ result = <<>>
  /\ previous = <<>>
  /\ NoShift
  /\ NoLedger
  /\ threw = FALSE
  /\ flag = TRUE
  /\ pc = "ready"

\* buildOptimizedBillings(patient, patientSlots, activeShiftWindows) with the
\* slots the routes read for it; where the routes' query has no upper bound to
\* read up to (no delivered time), the caller hands over every row of the patient.
suppliedSlots(p) ==
  IF toDate(getTriageWindowEnd(p, toDate(p.care_delivered_at))) # Null
  THEN patientSlotsFor(p)
  ELSE LET rows == RowsById({s \in shift_slots : s.patient_id = p.id})
       IN StableSort(rows, [i \in 1..Len(rows) |-> rows[i].start_time])

Optimize ==
  /\ pc = "ready"
  /\ threw' = engineThrows(patient, activeShiftWindow)
  /\ result' = IF threw' THEN <<>>
               ELSE buildOptimizedBillings(patient, suppliedSlots(patient),
                                           activeShiftWindow)
  /\ pc' = "done"
  /\ UNCHANGED <<patient, patients, doctors, shift_slots, patient_status_events,
                 activeShiftWindow, previous, flag, shiftVars, ledgerVars>>

Next == Optimize

Spec == Init /\ [][Next]_vars

\* The engine called a second time with the same patient, slot list and windows
\* on the tables as the first call left them (the engine only reads them).
InitTwice ==
  /\ \E e \in Episodes :
       /\ patient = Mother(e[1], e[2])
       /\ \E chosen \in Subsets(SlotPalette, 1), delivery \in DeliveryChoices(e[2]) :
            shift_slots = chosen \cup delivery
  /\ patient_status_events \in Subsets(EventPalette, MaxEvents)
  /\ activeShiftWindow \in WindowChoices
  /\ patients = {patient, OtherMother}
  /\ doctors = {1, 2}
  /\ result = <<>>
  /\ previous = <<>>
  /\ NoShift
  /\ NoLedger
  /\ threw = FALSE
  /\ flag = TRUE
  /\ pc = "ready"

\* The call, made twice in a row: "ready" -> "done" -> "again".
OptimizeRepeated ==
  /\ pc \in {"ready", "done"}
  /\ ~threw
  /\ previous' = result
  /\ threw' = engineThrows(patient, activeShiftWindow)
  /\ result' = IF threw' THEN <<>>
               ELSE buildOptimizedBillings(patient, suppliedSlots(patient),
                                           activeShiftWindow)
  /\ pc' = IF pc = "ready" THEN "done" ELSE "again"
  /\ UNCHANGED <<patient, patients, doctors, shift_slots, patient_status_events,
                 activeShiftWindow, flag, shiftVars, ledgerVars>>

NextTwice == OptimizeRepeated

SpecTwice == InitTwice /\ [][NextTwice]_vars

\* Malformed arguments: a null patient, windows whose start or end is missing or
\* unreadable, a window of a doctor that is not in the table, slots whose
\* start_time is unreadable.
MaxWindows == 2

WindowPalette ==
  {W1,
   Window(5, 1, Unparsable, At(0, 20, 0)),
   Window(6, 1, Missing, At(0, 20, 0)),
   Window(7, 1, At(0, 8, 0), Unparsable),
   Window(8, 1, At(0, 8, 0), Missing),
   Window(9, 3, At(0, 8, 0), At(0, 20, 0))}

Seqs(S, n) == UNION {[1..k -> S] : k \in 0..n}

MalformedSlots ==
  {Slot(1, 1, 1, At(0, 8, 0), "attended"),
   Slot(11, 1, 1, Unparsable, "attended"),
   Slot(12, 1, 1, Unparsable, "triage_visit"),
   Slot(13, 3, 1, At(0, 9, 0), "attended")}

InitMalformed ==
  /\ patient \in {NullPatient, Mother(At(0, 8, 0), At(0, 14, 0))}
  /\ patients = {OtherMother} \cup ({patient} \ {NullPatient})
  /\ doctors = {1, 2}
  /\ shift_slots \in Subsets(MalformedSlots, MaxSlots)
  /\ patient_status_events = {}
  /\ activeShiftWindow \in Seqs(WindowPalette, MaxWindows)
  /\ result = <<>>
  /\ previous = <<>>
  /\ NoShift
  /\ NoLedger
  /\ threw = FALSE
  /\ flag = TRUE
  /\ pc = "ready"

\* buildOptimizedBillings(patient, patientSlots, activeShiftWindows) handed
\* every row of the patient as its slot list.
OptimizeGiven ==
  /\ pc = "ready"
  /\ threw' = engineThrows(patient, activeShiftWindow)
  /\ result' = IF threw' THEN <<>>
               ELSE LET rows == RowsById({s \in shift_slots : s.patient_id = patient.id})
                    IN buildOptimizedBillings(patient, rows, activeShiftWindow)
  /\ pc' = "done"
  /\ UNCHANGED <<patient, patients, doctors, shift_slots, patient_status_events,
                 activeShiftWindow, previous, flag, shiftVars, ledgerVars>>

NextMalformed == OptimizeGiven

SpecMalformed == InitMalformed /\ [][NextMalformed]_vars

\* Episodes of the ghost scheduler off the quarter hour: an admission at 08:12
\* or 08:20, a delivery at 13:50, a custom shift entered as 08:10-19:40 or 07:50-13:40,
\* attended slots next to the delivery, and a delivery slot whose delivery_time
\* is not the patient's care_delivered_at (a later delivery entry or an edit of
\* the patient has moved care_delivered_at since the slot was written).
W5 == Window(10, 1, At(0, 8, 10), At(0, 19, 40))
W6 == Window(11, 2, At(0, 7, 50), At(0, 13, 40))

GhostPalette ==
  {Slot(1, 1, 1, At(0, 8, 0), "attended"),
   Slot(2, 1, 1, At(0, 8, 15), "attended"),
   Slot(3, 1, 1, At(0, 12, 45), "attended"),
   Slot(4, 1, 1, At(0, 13, 30), "attended"),
   Slot(5, 1, 1, At(0, 13, 45), "attended")}

EarlyDeliverySlot ==
  [Slot(10, 1, 1, At(0, 13, 0), "delivery")
     EXCEPT !.delivery_code = "87.98A", !.delivery_time = At(0, 13, 5)]

InitGhost ==
  /\ \E admitted \in {At(0, 8, 0), At(0, 8, 12), At(0, 8, 20)}, delivered \in {At(0, 13, 50), At(0, 14, 0)} :
       /\ patient = Mother(admitted, delivered)
       /\ \E chosen \in Subsets(GhostPalette, MaxSlots),
             delivery \in {{}, {EarlyDeliverySlot},
                           {DeliverySlot(delivered, "87.98A", FALSE, FALSE, FALSE, FALSE)}} :
            shift_slots = chosen \cup delivery
  /\ patients = {patient, OtherMother}
  /\ doctors = {1, 2}
  /\ patient_status_events = {}
  /\ activeShiftWindow \in {<<W1>>, <<W5>>, <<W6>>, <<W1, W2>>}
  /\ result = <<>>
  /\ previous = <<>>
  /\ NoShift
  /\ NoLedger
  /\ threw = FALSE
  /\ flag = TRUE
  /\ pc = "ready"

SpecGhost == InitGhost /\ [][Next]_vars

\* Episodes of an evening: admitted Monday 16:00, delivered 19:00 or 20:30, the
\* attended slots of doctor 1 around 17:00, where the EV modifier begins, and a
\* shift of doctor 1 that starts at 16:00 or at 17:00, alone or after a day
\* shift of the same doctor that ends at 17:00.
MaxEncounterSlots == 3

W7 == Window(12, 1, At(0, 16, 0), At(0, 23, 0))
W8 == Window(13, 1, At(0, 17, 0), At(1, 8, 0))
W9 == Window(14, 1, At(0, 8, 0), At(0, 17, 0))

EncounterPalette ==
  {Slot(1, 1, 1, At(0, 16, 45), "attended"),
   Slot(2, 1, 1, At(0, 17, 0), "attended"),
   Slot(3, 1, 1, At(0, 17, 15), "attended"),
   Slot(4, 1, 1, At(0, 17, 45), "attended"),
   Slot(5, 2, 1, At(0, 17, 0), "attended"),
   Slot(6, 1, 2, At(0, 18, 0), "attended")}

InitEncounter ==
  /\ \E delivered \in {At(0, 19, 0), At(0, 20, 30)} :
       patient = Mother(At(0, 16, 0), delivered)
  /\ shift_slots \in Subsets(EncounterPalette, MaxEncounterSlots)
  /\ patients = {patient, OtherMother}
  /\ doctors = {1, 2}
  /\ patient_status_events = {}
  /\ activeShiftWindow \in {<<W7>>, <<W8>>, <<W9, W8>>, <<W7, W2>>}
  /\ result = <<>>
  /\ previous = <<>>
  /\ NoShift
  /\ NoLedger
  /\ threw = FALSE
  /\ flag = TRUE
  /\ pc = "ready"

SpecEncounter == InitEncounter /\ [][Next]_vars

\* Episodes for the ranking of the ghost scheduler. A quiet evening: admitted
\* Monday 15:00, delivered 21:00, a few slots, other mothers on the ward whose
\* episodes cover parts of the evening (one delivered at 15:00 sharp, one
\* delivered by an obstetrician), doctor 1 on shift alone or with doctor 2.
MaxRankSlots == 2
MaxAbsent == 1

W10 == Window(15, 1, At(0, 15, 0), At(0, 23, 0))
W11 == Window(16, 2, At(0, 15, 0), At(0, 23, 0))
W12 == Window(17, 1, At(0, 15, 0), At(1, 8, 0))

Rivals ==
  {Patient(2, "mother", NoPatient, At(0, 16, 0), At(0, 17, 0), At(0, 19, 0)),
   Patient(3, "mother", NoPatient, At(0, 11, 0), At(0, 12, 0), At(0, 15, 0)),
   Patient(4, "mother", NoPatient, At(0, 17, 0), At(0, 18, 0), At(0, 22, 0))}

RankPalette ==
  {Slot(1, 1, 1, At(0, 17, 30), "attended"),
   Slot(2, 1, 1, At(0, 17, 45), "attended"),
   Slot(3, 1, 1, At(0, 16, 0), "attended"),
   Slot(4, 1, 2, At(0, 18, 0), "attended"),
   Slot(5, 1, 2, At(0, 17, 0), "triage_visit"),
   Slot(6, 2, 1, At(0, 20, 0), "attended"),
   [Slot(7, 2, 4, At(0, 22, 0), "delivery")
      EXCEPT !.delivery_code = "87.98B", !.delivery_time = At(0, 22, 0)]}

InitQuiet ==
  /\ patient = Mother(At(0, 15, 0), At(0, 21, 0))
  /\ \E others \in SUBSET Rivals : patients = {patient} \cup others
  /\ shift_slots \in Subsets(RankPalette, MaxRankSlots)
  /\ activeShiftWindow \in {<<W10>>, <<W10, W11>>}

\* A busy night: admitted Monday 15:00, delivered Tuesday 02:00, doctor 1
\* called to the patient every half hour from 15:00 to 23:30, but for up to
\* MaxAbsent of these calls.
BusySlots ==
  {Slot(20 + k, 1, 1, At(0, 15, 0) + 30 * k, "attended") : k \in 0..17}

InitBusy ==
  /\ patient = Mother(At(0, 15, 0), At(1, 2, 0))
  /\ patients = {patient, OtherMother}
  /\ \E absent \in Subsets(BusySlots, MaxAbsent) : shift_slots = BusySlots \ absent
  /\ activeShiftWindow \in {<<W12>>, <<W12, W11>>}

InitRanking ==
  /\ InitQuiet \/ InitBusy
  /\ doctors = {1, 2}
  /\ patient_status_events = {}
  /\ result = <<>>
  /\ previous = <<>>
  /\ NoShift
  /\ NoLedger
  /\ threw = FALSE
  /\ flag = TRUE
  /\ pc = "ready"

SpecRanking == InitRanking /\ [][Next]_vars

-----------------------------------------------------------------------------
(* Inputs of the builders run on their own *)

MaxInductions == 5
MaxTriageSlots == 4
MaxObSlots == 3

\* Inductions of patient 1: six within one hour (two at the same minute), one
\* exactly 24 hours after the first, and later ones on separate days.
InductionPalette ==
  {Event(1, 1, "Induction", At(0, 9, 0), 1),
   Event(2, 1, "Induction", At(0, 9, 10), 1),
   Event(3, 1, "Induction", At(0, 9, 20), 2),
   Event(4, 1, "Induction", At(0, 9, 40), NoDoctor),
   Event(5, 1, "Induction", At(0, 9, 59), 1),
   [Event(6, 1, "Induction", At(0, 9, 0), 2) EXCEPT !.induction_non_stress_test = TRUE],
   Event(7, 1, "Induction", At(0, 23, 0), 1),
   Event(8, 1, "Induction", At(1, 1, 0), 1),
   Event(9, 1, "Induction", At(1, 9, 0), 1),
   Event(10, 1, "Induction", At(2, 0, 30), 2),
   Event(11, 1, "Induction", At(3, 12, 0), 1),
   Event(12, 1, "Induction", At(4, 9, 0), 1),
   Event(13, 1, "Continuous Monitoring", At(0, 9, 30), 1),
   Event(14, 2, "Induction", At(0, 9, 5), 1),
   Event(15, 1, "Induction", Unparsable, 1)}

InitStatus ==
  /\ patient = Mother(At(0, 8, 0), At(5, 8, 0))
  /\ patients = {patient, OtherMother}
  /\ doctors = {1, 2}
  /\ shift_slots = {}
  /\ patient_status_events \in Subsets(InductionPalette, MaxInductions)
  /\ activeShiftWindow = <<>>
  /\ result = <<>>
  /\ previous = <<>>
  /\ NoShift
  /\ NoLedger
  /\ threw = FALSE
  /\ flag \in BOOLEAN
  /\ pc = "ready"

\* buildStatusEventBillings(patient.id, allowContinuousMonitoring)
StatusEvents ==
  /\ pc = "ready"
  /\ result' = buildStatusEventBillings(patient.id, flag)
  /\ pc' = "done"
  /\ UNCHANGED <<patient, patients, doctors, shift_slots, patient_status_events,
                 activeShiftWindow, previous, threw, flag, shiftVars, ledgerVars>>

NextStatus == StatusEvents

SpecStatus == InitStatus /\ [][NextStatus]_vars

\* Triage slots before the admission at 08:00.
TriagePalette ==
  {Slot(21, 2, 1, At(0, 7, 0), "triage_visit"),
   Slot(22, 2, 1, At(0, 7, 15), "triage_visit"),
   Slot(23, 1, 1, At(0, 7, 30), "triage_visit"),
   Slot(24, 2, 1, At(0, 7, 45), "triage_visit"),
   [Slot(25, 1, 1, At(0, 7, 15), "triage_reassessment")
      EXCEPT !.triage_non_stress_test = TRUE],
   [Slot(26, 1, 1, At(0, 7, 30), "triage_reassessment")
      EXCEPT !.triage_speculum_exam = TRUE],
   Slot(27, 1, 2, At(0, 7, 0), "triage_visit"),
   Slot(28, 1, 1, At(0, 15, 0), "triage_visit")}

InitTriage ==
  /\ patient = Mother(At(0, 8, 0), At(0, 14, 0))
  /\ patients = {patient, OtherMother}
  /\ doctors = {1, 2}
  /\ shift_slots \in Subsets(TriagePalette, MaxTriageSlots)
  /\ patient_status_events = {}
  /\ activeShiftWindow = <<>>
  /\ result = <<>>
  /\ previous = <<>>
  /\ NoShift
  /\ NoLedger
  /\ threw = FALSE
  /\ flag \in BOOLEAN
  /\ pc = "ready"

\* The triage slots the engine collects for the patient.
triageSlotsFor(p) ==
  collectTriageSlots(patientSlotsFor(p), triageCutoffOf(p, toDate(p.care_delivered_at)))

\* buildTriageBillings(triageSlots, allowTriageVisit)
TriageBillings ==
  /\ pc = "ready"
  /\ result' = buildTriageBillings(triageSlotsFor(patient), flag)
  /\ pc' = "done"
  /\ UNCHANGED <<patient, patients, doctors, shift_slots, patient_status_events,
                 activeShiftWindow, previous, threw, flag, shiftVars, ledgerVars>>

NextTriage == TriageBillings

SpecTriage == InitTriage /\ [][NextTriage]_vars

\* Reassessments in triage from 06:30, before the admission at 08:00: doctor 1
\* every quarter of an hour, doctor 2 at 06:50 and 07:00 in between.
MaxReassessments == 4

ReassessmentPalette ==
  {Slot(30, 2, 1, At(0, 7, 0), "triage_reassessment"),
   Slot(31, 1, 1, At(0, 6, 30), "triage_reassessment"),
   Slot(32, 1, 1, At(0, 6, 45), "triage_reassessment"),
   Slot(33, 1, 1, At(0, 7, 0), "triage_reassessment"),
   Slot(34, 1, 1, At(0, 7, 15), "triage_reassessment"),
   Slot(35, 2, 1, At(0, 6, 50), "triage_reassessment"),
   Slot(36, 1, 1, At(0, 7, 45), "triage_reassessment")}

InitReassessment ==
  /\ patient = Patient(1, "mother", NoPatient, At(0, 6, 0), At(0, 8, 0), At(0, 14, 0))
  /\ patients = {patient, OtherMother}
  /\ doctors = {1, 2}
  /\ shift_slots \in Subsets(ReassessmentPalette, MaxReassessments)
  /\ patient_status_events = {}
  /\ activeShiftWindow = <<>>
  /\ result = <<>>
  /\ previous = <<>>
  /\ NoShift
  /\ NoLedger
  /\ threw = FALSE
  /\ flag \in BOOLEAN
  /\ pc = "ready"

SpecReassessment == InitReassessment /\ [][NextTriage]_vars

\* Triage visits and inductions around an admission on Tuesday 08:00: visits
\* late on Monday and on Tuesday morning by doctor 1, doctor 2 or nobody on
\* record, one after the delivery; inductions by doctor 1, doctor 2 or nobody
\* on record, on Monday, on Tuesday before, at and after the admission; a
\* Triage event after the delivery.
MaxVisitSlots == 2
MaxVisitEvents == 2

W13 == Window(18, 1, At(1, 8, 0), At(1, 20, 0))

VisitPalette ==
  {Slot(41, 1, 1, At(0, 23, 30), "triage_visit"),
   Slot(42, 2, 1, At(1, 7, 0), "triage_visit"),
   Slot(43, NoDoctor, 1, At(1, 7, 15), "triage_visit"),
   Slot(44, 1, 1, At(1, 7, 30), "triage_visit"),
   Slot(45, 2, 1, At(1, 15, 0), "triage_visit")}

VisitEvents ==
  {Event(21, 1, "Induction", At(0, 23, 45), 1),
   Event(22, 1, "Induction", At(1, 7, 10), 1),
   Event(23, 1, "Induction", At(1, 7, 10), 2),
   Event(24, 1, "Induction", At(1, 7, 20), NoDoctor),
   Event(25, 1, "Induction", At(1, 8, 0), 2),
   Event(26, 1, "Induction", At(1, 9, 0), 1),
   Event(27, 1, "Triage", At(1, 16, 0), NoDoctor)}

InitVisit ==
  /\ patient = Patient(1, "mother", NoPatient, At(0, 22, 0), At(1, 8, 0), At(1, 14, 0))
  /\ patients = {patient, OtherMother}
  /\ doctors = {1, 2}
  /\ shift_slots \in Subsets(VisitPalette, MaxVisitSlots)
  /\ patient_status_events \in Subsets(VisitEvents, MaxVisitEvents)
  /\ activeShiftWindow \in {<<>>, <<W13>>}
  /\ result = <<>>
  /\ previous = <<>>
  /\ NoShift
  /\ NoLedger
  /\ threw = FALSE
  /\ flag = TRUE
  /\ pc = "ready"

SpecVisit == InitVisit /\ [][Next]_vars

\* After-hours premiums: an episode of Monday evening, admitted at 16:00 and
\* delivered at 22:30, with slots of doctors 1 and 2 before 17:00, in the
\* evening, at night before the delivery and after it, a slot whose action is
\* not counted, a second row at a time already taken and a slot of another
\* patient; a Triage event after the delivery; shifts of doctor 1 from 16:00 or
\* from 18:00 and a shift of doctor 2.
MaxPremiumSlots == 3

W14 == Window(19, 1, At(0, 16, 0), At(1, 8, 0))
W15 == Window(20, 2, At(0, 16, 0), At(0, 23, 0))
W16 == Window(21, 1, At(0, 18, 0), At(1, 8, 0))

PremiumPalette ==
  {Slot(61, 1, 1, At(0, 16, 30), "attended"),
   Slot(62, 1, 1, At(0, 17, 15), "attended"),
   Slot(63, 1, 1, At(0, 17, 15), "triage_reassessment"),
   Slot(64, 1, 1, At(0, 22, 15), "triage_reassessment"),
   Slot(65, 2, 1, At(0, 18, 0), "attended"),
   Slot(66, 1, 1, At(0, 23, 0), "triage_reassessment"),
   Slot(67, 1, 1, At(0, 19, 0), "rounds"),
   Slot(68, 1, 2, At(0, 17, 30), "attended")}

PremiumEvents == {Event(31, 1, "Triage", At(0, 23, 30), NoDoctor)}

InitPremium ==
  /\ patient = Mother(At(0, 16, 0), At(0, 22, 30))
  /\ patients = {patient, OtherMother}
  /\ doctors = {1, 2}
  /\ shift_slots \in Subsets(PremiumPalette, MaxPremiumSlots)
  /\ patient_status_events \in SUBSET PremiumEvents
  /\ activeShiftWindow \in {<<>>, <<W14>>, <<W16>>, <<W14, W15>>, <<W14, W16>>}
  /\ result = <<>>
  /\ previous = <<>>
  /\ NoShift
  /\ NoLedger
  /\ threw = FALSE
  /\ flag = TRUE
  /\ pc = "ready"

SpecPremium == InitPremium /\ [][Next]_vars

\* Occupied times: a morning episode admitted at 08:00 or at 08:12 and
\* delivered at 11:00 under the day shift of doctor 1 (entered on the quarter
\* hour or as 08:10-19:40) and the shift of doctor 2, while the doctors have
\* rows on record for another patient, for nobody and for this patient, on and
\* off the quarter hour.
MaxOccupied == 3

OccupiedPalette ==
  {Slot(71, 1, 2, At(0, 8, 0), "attended"),
   Slot(72, 1, 2, At(0, 9, 0), "attended"),
   Slot(73, 1, 1, At(0, 9, 30), "attended"),
   Slot(74, 2, 2, At(0, 9, 0), "triage_visit"),
   Slot(75, 1, NoPatient, At(0, 10, 0), ""),
   Slot(76, 1, 2, At(0, 9, 10), "attended"),
   Slot(77, 1, 2, At(0, 8, 25), "rounds"),
   Slot(78, 1, 1, At(0, 9, 45), "rounds")}

InitOccupied ==
  /\ \E admitted \in {At(0, 8, 0), At(0, 8, 12)} :
       patient = Mother(admitted, At(0, 11, 0))
  /\ patients = {patient, OtherMother}
  /\ doctors = {1, 2}
  /\ shift_slots \in Subsets(OccupiedPalette, MaxOccupied)
  /\ patient_status_events = {}
  /\ activeShiftWindow \in {<<W1>>, <<W5>>, <<W1, W2>>}
  /\ result = <<>>
  /\ previous = <<>>
  /\ NoShift
  /\ NoLedger
  /\ threw = FALSE
  /\ flag = TRUE
  /\ pc = "ready"

SpecOccupied == InitOccupied /\ [][Next]_vars

\* Callbacks: the slots of doctors 1 and 2 for two mothers (the second admitted
\* at 11:00) around the start of the day shifts and in the night shift of
\* doctor 1, a slot without a patient and a slot without an action.
MaxCallbackSlots == 3

CallbackPalette ==
  {Slot(51, 1, 1, At(0, 8, 0), "attended"),
   Slot(52, 1, 2, At(0, 8, 15), "attended"),
   Slot(53, 1, 1, At(0, 7, 45), "triage_visit"),
   Slot(54, 2, 1, At(0, 7, 30), "triage_reassessment"),
   Slot(55, 2, 2, At(0, 11, 15), "attended"),
   Slot(56, 1, NoPatient, At(0, 8, 0), "attended"),
   Slot(57, 1, 1, At(0, 8, 30), "rounds"),
   Slot(58, 1, 2, At(0, 8, 10), ""),
   Slot(59, 1, 1, At(0, 22, 30), "attended")}

InitCallback ==
  /\ patients = {Mother(At(0, 8, 0), At(0, 14, 0)), OtherMother}
  /\ patient \in patients
  /\ doctors = {1, 2}
  /\ shift_slots \in Subsets(CallbackPalette, MaxCallbackSlots)
  /\ patient_status_events = {}
  /\ activeShiftWindow \in {<<W1>>, <<W2>>, <<W1, W2>>, <<W8>>, <<W1, W8>>}
  /\ result = <<>>
  /\ previous = <<>>
  /\ NoShift
  /\ NoLedger
  /\ threw = FALSE
  /\ flag = TRUE
  /\ pc = "ready"

\* buildCallbackBillingInfo(patient, activeShiftWindows): the info records.
CallbackBillingInfo ==
  /\ pc = "ready"
  /\ result' = buildCallbackBillingInfo(patient, activeShiftWindow)
  /\ pc' = "done"
  /\ UNCHANGED <<patient, patients, doctors, shift_slots, patient_status_events,
                 activeShiftWindow, previous, threw, flag, shiftVars, ledgerVars>>

NextCallback == CallbackBillingInfo

SpecCallback == InitCallback /\ [][NextCallback]_vars

\* Attended slots of an episode delivered by an obstetrician (87.98B) or as a
\* VBAC (87.98C); doctors 1 and 2 each keep their own rows of the grid.
ObPalette ==
  {Slot(1, 1, 1, At(0, 8, 0), "attended"),
   Slot(2, 1, 1, At(0, 8, 15), "attended"),
   Slot(3, 2, 1, At(0, 8, 0), "attended"),
   Slot(4, 1, 1, At(0, 8, 30), "attended"),
   Slot(5, 2, 1, At(0, 9, 0), "attended"),
   Slot(6, 1, 1, At(0, 9, 15), "attended"),
   Slot(7, 2, 1, At(0, 14, 0), "attended"),
   Slot(8, 1, 1, At(0, 10, 0), "rounds"),
   Slot(9, 2, 1, At(0, 7, 45), "triage_visit")}

W4 == Window(4, 1, At(0, 8, 15), At(0, 20, 0))

InitOb ==
  /\ patient = Mother(At(0, 8, 0), At(0, 14, 0))
  /\ patients = {patient, OtherMother}
  /\ doctors = {1, 2}
  /\ \E chosen \in Subsets(ObPalette, MaxObSlots), code \in {"87.98B", "87.98C"} :
       shift_slots = chosen \cup {DeliverySlot(At(0, 14, 0), code, FALSE, FALSE, FALSE, FALSE)}
  /\ patient_status_events = {}
  /\ activeShiftWindow \in {<<>>, <<W1>>, <<W4>>}
  /\ result = <<>>
  /\ previous = <<>>
  /\ NoShift
  /\ NoLedger
  /\ threw = FALSE
  /\ flag = TRUE
  /\ pc = "ready"

SpecOb == InitOb /\ [][Next]_vars

-----------------------------------------------------------------------------
(* routes/shift and routes/doctors: the shift grid and the shift itself.    *)
(* A request timestamp is a count of seconds; stored times are minutes.     *)

ShiftWindow(id, doctor_id, start_datetime, end_datetime, is_active) ==
  [id |-> id, doctor_id |-> doctor_id, start_datetime |-> start_datetime,
   end_datetime |-> end_datetime, is_active |-> is_active]

\* What dbGet returns when no row matches.
NoRow == [id |-> 0]

\* SELECT * FROM doctors WHERE is_on_shift = 1 LIMIT 1
getShiftDoctor(onShift) ==
  LET on == {d \in DOMAIN onShift : onShift[d] = 1}
  IN IF on = {} THEN NoDoctor ELSE CHOOSE d \in on : \A e \in on : d <= e

\* SELECT * FROM shift_windows WHERE is_active = 1 ORDER BY start_datetime DESC LIMIT 1
getActiveShiftWindow(windows) ==
  LET active == {w \in windows : w.is_active = 1}
  IN IF active = {} THEN NoRow
     ELSE CHOOSE w \in active :
            \A v \in active : \/ v.start_datetime < w.start_datetime
                               \/ (v.start_datetime = w.start_datetime /\ v.id >= w.id)

\* cleanupOldShiftData: the rows older than the cutoff (now minus four days) go.
cleanupSlots(slots, cutoff) == {s \in slots : ~(s.start_time < cutoff)}
cleanupWindows(windows, cutoff) == {w \in windows : ~(w.end_datetime < cutoff)}

\* formatLocalDateTime(new Date(ts * 1000)): the minute the second lies in.
formatTimestamp(ts) == ts \div 60

\* getTriageAction(patientId, doctorId)
getTriageAction(slots, patientId, doctorId) ==
  IF patientId = NoPatient \/ doctorId = NoDoctor THEN "triage_visit"
  ELSE IF \E s \in slots : /\ s.patient_id = patientId /\ s.doctor_id # doctorId
                            /\ s.action \in {"triage_visit", "triage_reassessment"}
       THEN "triage_reassessment" ELSE "triage_visit"

\* getStatusAtTime(patient, slotTime): the status of the last event at or
\* before the slot, events ordered by time and then by rank; the patients of
\* this model have no discharge_datetime.
getStatusAtTime(p, ts) ==
  LET base == <<[time |-> toDate(p.start_datetime), status |-> "Triage", order |-> 2],
                [time |-> toDate(p.care_admitted_at), status |-> "Admitted", order |-> 4],
                [time |-> toDate(p.care_delivered_at), status |-> "Delivered", order |-> 6]>>
      rows == RowsById({e \in patient_status_events :
                          /\ e.patient_id = p.id
                          /\ toDate(e.occurred_at) # Null
                          /\ e.status \in {"Triage", "Admitted", "Delivered", "Discharged"}})
      extra == [i \in 1..Len(rows) |->
                  [time |-> toDate(rows[i].occurred_at), status |-> rows[i].status,
                   order |-> 3]]
      legacy == IF toDate(p.second_triage_at) # Null
                THEN <<[time |-> toDate(p.second_triage_at), status |-> "Triage", order |-> 3]>>
                ELSE <<>>
      events == SelectSeq(base, LAMBDA e : e.time # Null) \o extra \o legacy
      sorted == StableSort(events, [i \in 1..Len(events) |->
                                     events[i].time * 8 + events[i].order])
      past == {i \in 1..Len(sorted) : sorted[i].time * 60 <= ts}
  IN IF past = {} THEN "Triage"
     ELSE sorted[CHOOSE i \in past : \A j \in past : j <= i].status

\* existingMap.get(slotTimeStr): the map is filled once, before the fields are
\* read, from the rows of the shift doctor inside the window; a later row of
\* the same minute replaces an earlier one.
existingSlotFor(existingSlots, slotTimeStr) ==
  LET hits == {x \in existingSlots :
                 formatLocalDateTime(toDate(x.start_time)) = slotTimeStr}
  IN IF hits = {} THEN NoRow ELSE CHOOSE x \in hits : \A y \in hits : y.id <= x.id

\* The id AUTOINCREMENT hands out: above every row of the table.
nextRowId(slots) ==
  IF slots = {} THEN 1 ELSE 1 + (CHOOSE n \in {x.id : x \in slots} : \A x \in slots : x.id <= n)

deleteSlot(slots, id) == {x \in slots : x.id # id}

\* The body of the forEach over the request's slot_patient_<ts> fields, for
\* one field: db is the tables as the fields before it left them.
gridField(db, field, existingSlots, shiftDoctor, shiftWindow) ==
  LET ts == field.ts
      slotTimeStr == formatTimestamp(ts)
      windowStart == toDate(shiftWindow.start_datetime)
      windowEnd == toDate(shiftWindow.end_datetime)
      existingSlot == existingSlotFor(existingSlots, slotTimeStr)
      existingAction == IF existingSlot # NoRow THEN existingSlot.action ELSE ""
      patientId == field.val
      hits == {q \in db.patients : q.id = patientId}
      p == IF hits = {} THEN NoRow ELSE CHOOSE q \in hits : TRUE
      actionVal == field.action
      statusAtTime == getStatusAtTime(p, ts)
      triageAction == getTriageAction(db.slots, patientId, shiftDoctor)
      allowedActions == IF statusAtTime = "Triage" THEN {triageAction}
                        ELSE IF statusAtTime = "Admitted" THEN {"attended", "delivery"}
                        ELSE {}
      removed == IF existingSlot # NoRow
                 THEN [db EXCEPT !.slots = deleteSlot(db.slots, existingSlot.id)]
                 ELSE db
      exactDt == IF toDate(field.delivery_time) # Null THEN toDate(field.delivery_time)
                 ELSE formatTimestamp(ts)
      delivered == {IF q.id = patientId
                    THEN [q EXCEPT !.care_delivered_at = formatLocalDateTime(exactDt)]
                    ELSE q : q \in db.patients}
      written(row) ==
        IF actionVal = "delivery"
        THEN [row EXCEPT !.patient_id = patientId, !.action = actionVal,
                         !.delivery_by = "", !.delivery_code = "87.98A",
                         !.delivery_time = formatLocalDateTime(exactDt),
                         !.delivery_postpartum_hemorrhage = FALSE,
                         !.delivery_vacuum = FALSE,
                         !.delivery_vaginal_laceration = FALSE,
                         !.delivery_shoulder_dystocia = FALSE,
                         !.delivery_manual_placenta = FALSE,
                         !.triage_non_stress_test = FALSE,
                         !.triage_speculum_exam = FALSE]
        ELSE [row EXCEPT !.patient_id = patientId, !.action = actionVal,
                         !.delivery_by = "", !.delivery_code = "",
                         !.delivery_time = Missing,
                         !.delivery_postpartum_hemorrhage = FALSE,
                         !.delivery_vacuum = FALSE,
                         !.delivery_vaginal_laceration = FALSE,
                         !.delivery_shoulder_dystocia = FALSE,
                         !.delivery_manual_placenta = FALSE,
                         !.triage_non_stress_test = FALSE,
                         !.triage_speculum_exam = FALSE]
      updated == {IF x.id = existingSlot.id THEN written(x) ELSE x : x \in db.slots}
      inserted == db.slots \cup
                    {written(Slot(nextRowId(db.slots), shiftDoctor, patientId,
                                  slotTimeStr, actionVal))}
      stored == IF existingSlot # NoRow THEN updated ELSE inserted
  IN IF windowStart = Null \/ windowEnd = Null
        \/ ts < windowStart * 60 \/ ts >= windowEnd * 60 THEN db
     ELSE IF existingSlot # NoRow /\ existingSlot.locked = 1 THEN db
     ELSE IF patientId = NoPatient THEN removed
     ELSE IF /\ existingSlot # NoRow /\ existingSlot.patient_id # NoPatient
             /\ existingSlot.patient_id # patientId /\ existingAction # "" THEN db
     ELSE IF p = NoRow THEN db
     ELSE IF actionVal = "" THEN removed
     ELSE IF actionVal \notin allowedActions THEN db
     ELSE IF actionVal = "delivery" THEN [slots |-> stored, patients |-> delivered]
     ELSE [db EXCEPT !.slots = stored]

RECURSIVE gridFields(_, _, _, _, _)
gridFields(db, fields, existingSlots, shiftDoctor, shiftWindow) ==
  IF fields = <<>> THEN db
  ELSE gridFields(gridField(db, Head(fields), existingSlots, shiftDoctor, shiftWindow),
                  Tail(fields), existingSlots, shiftDoctor, shiftWindow)

\* The handler of POST /shift_grid on the tables after the cleanup.
postShiftGrid(slots, windows, body) ==
  LET shiftDoctor == getShiftDoctor(is_on_shift)
      shiftWindow == getActiveShiftWindow(windows)
      db == [slots |-> slots, patients |-> patients]
      existingSlots == {x \in slots : /\ x.doctor_id = shiftDoctor
                                      /\ x.start_time >= shiftWindow.start_datetime
                                      /\ x.start_time < shiftWindow.end_datetime}
  IN IF shiftDoctor = NoDoctor \/ shiftWindow = NoRow THEN db
     ELSE gridFields(db, body, existingSlots, shiftDoctor, shiftWindow)

MaxRequests == 2

\* Timestamps of request fields: 09:00:00 and 09:00:30, 09:15:00, and 07:45:00
\* before the window opens.
GridTimestamps ==
  {At(0, 9, 0) * 60, At(0, 9, 0) * 60 + 30, At(0, 9, 15) * 60, At(0, 7, 45) * 60}

\* One slot_patient_<ts> field with the slot_action_<ts> and
\* slot_delivery_time_<ts> fields that go with it; val 0 is the empty value.
FieldPalette ==
  [ts : GridTimestamps, val : {NoPatient, 1, 2},
   action : {"", "attended", "delivery", "triage_visit"}, delivery_time : {Missing}]

\* Request bodies of one or two slot fields; fields of one timestamp share the
\* slot_action_<ts> field.
Bodies ==
  {<<f>> : f \in FieldPalette}
    \cup {<<fg[1], fg[2]>> :
            fg \in {pair \in FieldPalette \X FieldPalette :
                      pair[1].ts = pair[2].ts => pair[1].action = pair[2].action}}

\* now minus four days, as the cleanup sees it: before every row, or 09:10.
CleanupCutoffs == {0, At(0, 9, 10)}

\* Doctor 1 is on shift in the active window 08:00-20:00; patient 1 was
\* admitted at 08:00, patient 2 is in triage until 11:00.
InitGrid ==
  /\ patient = NullPatient
  /\ patients = {Mother(At(0, 8, 0), Missing), OtherMother}
  /\ doctors = {1, 2}
  /\ shift_slots \in {{}, {Slot(1, 1, 2, At(0, 9, 15), "triage_visit")},
                       {[Slot(1, 1, 1, At(0, 9, 15), "attended") EXCEPT !.locked = 1]}}
  /\ patient_status_events = {}
  /\ activeShiftWindow = <<>>
  /\ result = <<>>
  /\ previous = <<>>
  /\ threw = FALSE
  /\ shift_windows = {ShiftWindow(1, 1, At(0, 8, 0), At(0, 20, 0), 1)}
  /\ is_on_shift = [d \in doctors |-> IF d = 1 THEN 1 ELSE 0]
  /\ served = 0
  /\ NoLedger
  /\ flag = TRUE
  /\ pc = "ready"

\* POST /shift_grid
PostShiftGrid ==
  /\ served < MaxRequests
  /\ \E cutoff \in CleanupCutoffs, body \in Bodies :
       LET windows == cleanupWindows(shift_windows, cutoff)
           db == postShiftGrid(cleanupSlots(shift_slots, cutoff), windows, body)
       IN /\ shift_windows' = windows
          /\ shift_slots' = db.slots
          /\ patients' = db.patients
  /\ served' = served + 1
  /\ pc' = "shift_grid"
  /\ UNCHANGED <<patient, doctors, patient_status_events, activeShiftWindow, result,
                 previous, threw, is_on_shift, flag, ledgerVars>>

NextGrid == PostShiftGrid

SpecGrid == InitGrid /\ [][NextGrid]_vars

\* UPDATE doctors SET is_on_shift = 0, then = 1 for one id (no row, no change).
putOnShift(onShift, id) == [d \in DOMAIN onShift |-> IF d = id THEN 1 ELSE 0]

\* Variant of the reset that leaves the windows as they are.
deactivateAll_none(windows) ==
  windows

\* UPDATE shift_windows SET is_active = 0
deactivateAll(windows) == {[w EXCEPT !.is_active = 0] : w \in windows}

\* The start and end POST /doctors/on_shift works out: a day shift is
\* 08:00-20:00 of the date, a night shift 20:00-08:00, a custom shift the times
\* sent (08:00 and 20:00 when empty); without an end date, an end at or before
\* the start moves to the next day.  Times of day are minutes after midnight.
shiftTimes(shiftType, day, startTime, endTime) ==
  LET st == IF shiftType = "day" THEN 480
            ELSE IF shiftType = "night" THEN 1200
            ELSE IF startTime = Missing THEN 480 ELSE startTime
      et == IF shiftType = "day" THEN 1200
            ELSE IF shiftType = "night" THEN 480
            ELSE IF endTime = Missing THEN 1200 ELSE endTime
      startDt == day * MinutesPerDay + st
      endDt == day * MinutesPerDay + et
  IN <<startDt,
       IF shiftType # "day" /\ endDt <= startDt THEN endDt + MinutesPerDay ELSE endDt>>

MaxShiftRequests == 3

\* The forms' inputs: doctor 3 is not in the table; a custom shift left empty,
\* one entered as 08:10-19:40 and one that runs 08:10-06:00 into the next day.
ShiftForms ==
  [doctor_id : {1, 2, 3}, shift_type : {"day", "night"}, shift_date : {0},
   shift_start_time : {Missing}, shift_end_time : {Missing}]
    \cup [doctor_id : {1, 2}, shift_type : {"custom"}, shift_date : {0},
          shift_start_time : {Missing, 490}, shift_end_time : {1180, 360}]

\* now minus four days, as the cleanup sees it: before every row, or Tuesday
\* 09:00, after Monday's shifts have ended.
ShiftCleanupCutoffs == {0, At(1, 9, 0)}

\* A database in which no shift has been started yet.
InitShift ==
  /\ patient = NullPatient
  /\ patients = {OtherMother}
  /\ doctors = {1, 2}
  /\ shift_slots = {}
  /\ patient_status_events = {}
  /\ activeShiftWindow = <<>>
  /\ result = <<>>
  /\ previous = <<>>
  /\ NoShift
  /\ NoLedger
  /\ threw = FALSE
  /\ flag = TRUE
  /\ pc = "ready"

\* POST /doctors/on_shift
OnShift ==
  /\ served < MaxShiftRequests
  /\ \E cutoff \in ShiftCleanupCutoffs, form \in ShiftForms :
       LET windows == cleanupWindows(shift_windows, cutoff)
           times == shiftTimes(form.shift_type, form.shift_date,
                               form.shift_start_time, form.shift_end_time)
       IN /\ shift_slots' = cleanupSlots(shift_slots, cutoff)
          /\ IF Doctor(form.doctor_id) = NoDoctor
             THEN /\ shift_windows' = windows
                  /\ is_on_shift' = is_on_shift
                  /\ pc' = "redirect"
             ELSE /\ is_on_shift' = putOnShift(is_on_shift, form.doctor_id)
                  /\ shift_windows' =
                       deactivateAll(windows)
                         \cup {ShiftWindow(nextRowId(windows), form.doctor_id,
                                           formatLocalDateTime(times[1]),
                                           formatLocalDateTime(times[2]), 1)}
                  /\ pc' = "on_shift"
  /\ served' = served + 1
  /\ UNCHANGED <<patient, patients, doctors, patient_status_events, activeShiftWindow,
                 result, previous, threw, flag, ledgerVars>>

\* POST /doctors/activate_shift
ActivateShift ==
  /\ served < MaxShiftRequests
  /\ \E cutoff \in ShiftCleanupCutoffs, windowId \in 1..MaxShiftRequests :
       LET windows == cleanupWindows(shift_windows, cutoff)
           hits == {w \in windows : w.id = windowId}
           window == IF hits = {} THEN NoRow ELSE CHOOSE w \in hits : TRUE
       IN /\ shift_slots' = cleanupSlots(shift_slots, cutoff)
          /\ IF window = NoRow
             THEN /\ shift_windows' = windows
                  /\ is_on_shift' = is_on_shift
                  /\ pc' = "redirect"
             ELSE /\ is_on_shift' = putOnShift(is_on_shift, window.doctor_id)
                  /\ shift_windows' =
                       {IF w.id = window.id THEN [w EXCEPT !.is_active = 1] ELSE w :
                          w \in deactivateAll(windows)}
                  /\ pc' = "activate_shift"
  /\ served' = served + 1
  /\ UNCHANGED <<patient, patients, doctors, patient_status_events, activeShiftWindow,
                 result, previous, threw, flag, ledgerVars>>

\* POST /shift_grid/end_shift
EndShift ==
  /\ served < MaxShiftRequests
  /\ is_on_shift' = [d \in DOMAIN is_on_shift |-> 0]
  /\ shift_windows' = deactivateAll(shift_windows)
  /\ pc' = "end_shift"
  /\ served' = served + 1
  /\ UNCHANGED <<patient, patients, doctors, shift_slots, patient_status_events,
                 activeShiftWindow, result, previous, threw, flag, ledgerVars>>

NextShift == OnShift \/ ActivateShift \/ EndShift

SpecShift == InitShift /\ [][NextShift]_vars

-----------------------------------------------------------------------------
(* POST /optimization/:pid/confirm *)

MaxConfirms == 3
MaxConfirmSlots == 2

\* A baby of the first mother: no care times of its own.
Baby == Patient(3, "baby", 1, Missing, Missing, Missing)

\* The second mother on the ward: admitted at 08:00 or at 09:00 and delivered
\* at 10:30 or at noon, or not delivered yet.
SecondMothers ==
  {Patient(2, "mother", NoPatient, At(0, 7, 30), At(0, 8, 0), At(0, 10, 30)),
   Patient(2, "mother", NoPatient, At(0, 8, 30), At(0, 9, 0), At(0, 12, 0)),
   Patient(2, "mother", NoPatient, At(0, 8, 30), At(0, 9, 0), Missing)}

ConfirmPalette ==
  {Slot(81, 1, 1, At(0, 8, 30), "attended"),
   Slot(82, 1, 2, At(0, 9, 0), "attended"),
   Slot(83, 2, 2, At(0, 9, 15), "attended")}

\* The ids the form is posted for: the mothers, the baby, and an id not in the
\* table.
ConfirmIds == {1, 2, 3, 4}

\* The first mother was admitted at 08:00 and delivered at 11:00. The shift
\* windows on record (none, the day shift of doctor 1, or that and the shift
\* of doctor 2) overlap the care windows of both mothers, so they are what
\* getShiftWindowsForRange(admitted, delivered) hands over for either of them.
InitConfirm ==
  /\ patient = NullPatient
  /\ \E second \in SecondMothers :
       patients = {Mother(At(0, 8, 0), At(0, 11, 0)), second, Baby}
  /\ doctors = {1, 2}
  /\ shift_slots \in Subsets(ConfirmPalette, MaxConfirmSlots)
  /\ patient_status_events = {}
  /\ activeShiftWindow \in {<<>>, <<W1>>, <<W1, W2>>}
  /\ result = <<>>
  /\ previous = <<>>
  /\ NoShift
  /\ NoLedger
  /\ threw = FALSE
  /\ flag = TRUE
  /\ pc = "ready"

\* INSERT INTO confirmed_billings, one row per recommendation.
confirmedRows(pid, recommendations) ==
  {[row |-> n, patient_id |-> pid, doctor_id |-> recommendations[n].doctor,
    code |-> recommendations[n].code, modifier |-> recommendations[n].modifier,
    timestamp |-> formatLocalDateTime(recommendations[n].time)] :
     n \in 1..Len(recommendations)}

\* INSERT INTO ghost_ja_locks: a row per 13.99JA recommendation with a doctor
\* whose (doctor, time) is not the key of a shift_slots row between the
\* patient's start point and the end of her triage window.
ghostLockRows(p, recommendations) ==
  LET startPoint == IF toDate(p.start_datetime) # Null THEN toDate(p.start_datetime)
                    ELSE toDate(p.care_admitted_at)
      startStr == formatLocalDateTime(startPoint)
      endStr == formatLocalDateTime(getTriageWindowEnd(p, toDate(p.care_delivered_at)))
      shiftSlots == {slot \in shift_slots :
                       slot.start_time >= startStr /\ slot.start_time <= endStr}
      occupiedKeys == {<<slot.doctor_id, formatLocalDateTime(toDate(slot.start_time))>> :
                         slot \in {x \in shiftSlots : toDate(x.start_time) # Null}}
      locking(n) ==
        /\ recommendations[n].code = "13.99JA"
        /\ recommendations[n].doctor # NoDoctor
        /\ formatLocalDateTime(recommendations[n].time) # Null
        /\ <<recommendations[n].doctor, formatLocalDateTime(recommendations[n].time)>>
             \notin occupiedKeys
  IN {[row |-> n, patient_id |-> p.id, doctor_id |-> recommendations[n].doctor,
       start_time |-> formatLocalDateTime(recommendations[n].time)] :
        n \in {m \in 1..Len(recommendations) : locking(m)}}

\* The tables the handler works on, as it finds them.
tablesBefore ==
  [locks |-> ghost_ja_locks, billings |-> confirmed_billings, slots |-> shift_slots,
   patients |-> patients, status |-> patients_status, recommendations |-> <<>>]

\* The tables once the recommendations for the patient are there: unchanged
\* when there is none, else her confirmed billings and ghost locks replaced,
\* her slots locked and the patient discharged.
confirmTables(p, recommendations) ==
  IF Len(recommendations) = 0 THEN tablesBefore
  ELSE
    [locks |-> {l \in ghost_ja_locks : l.patient_id # p.id}
                 \cup ghostLockRows(p, recommendations),
     billings |-> {b \in confirmed_billings : b.patient_id # p.id}
                    \cup confirmedRows(p.id, recommendations),
     slots |-> {IF slot.patient_id = p.id THEN [slot EXCEPT !.locked = 1] ELSE slot :
                  slot \in shift_slots},
     patients |-> (patients \ {p})
                    \cup {[p EXCEPT
                             !.care_admitted_at =
                               formatLocalDateTime(toDate(p.care_admitted_at)),
                             !.care_delivered_at =
                               formatLocalDateTime(toDate(p.care_delivered_at))]},
     status |-> [patients_status EXCEPT ![p.id] = "discharged"],
     recommendations |-> recommendations]

\* The tables after the handler has run for the id: unchanged where it
\* redirects (no active mother of that id, a care time missing, admitted not
\* before delivered, no recommendation).
postConfirm(pid) ==
  LET found == {p \in patients : /\ p.id = pid
                                 /\ patients_status[pid] = "active"
                                 /\ p.patient_type # "baby"}
  IN IF found = {} THEN tablesBefore
     ELSE
       LET p == CHOOSE q \in found : TRUE
           admitted == toDate(p.care_admitted_at)
           delivered == toDate(p.care_delivered_at)
       IN IF admitted = Null \/ delivered = Null THEN tablesBefore
          ELSE IF admitted >= delivered THEN tablesBefore
          ELSE confirmTables(p, buildOptimizedBillings(p, patientSlotsFor(p),
                                                       activeShiftWindow))

Confirm ==
  /\ served < MaxConfirms
  /\ \E pid \in ConfirmIds :
       \E db \in {postConfirm(pid)} :
          /\ ghost_ja_locks' = db.locks
          /\ confirmed_billings' = db.billings
          /\ shift_slots' = db.slots
          /\ patients' = db.patients
          /\ patients_status' = db.status
          /\ result' = db.recommendations
  /\ served' = served + 1
  /\ pc' = "confirm"
  /\ UNCHANGED <<patient, doctors, patient_status_events, activeShiftWindow, previous,
                 threw, shift_windows, is_on_shift, flag>>

NextConfirm == Confirm

SpecConfirm == InitConfirm /\ [][NextConfirm]_vars

-----------------------------------------------------------------------------
(* Properties *)

Done == pc = "done"

Lines(code) == {i \in 1..Len(result) : result[i].code = code}

Contains(billing) == \E i \in 1..Len(result) : result[i] = billing

\* The episode lacks a readable time or has the times out of order.
EpisodeBroken ==
  \/ patient.care_admitted_at \in {Missing, Unparsable}
  \/ patient.care_delivered_at \in {Missing, Unparsable}
  \/ patient.care_admitted_at >= patient.care_delivered_at

\* The delivery slot of the episode, when one is recorded.
Deliveries == {s \in shift_slots : s.action = "delivery" /\ s.patient_id = patient.id}

ObDelivery == \E s \in Deliveries : s.delivery_code \in {"87.98B", "87.98C"}

OnGhostPath == Done /\ ~EpisodeBroken /\ ~ObDelivery /\ activeShiftWindow # <<>>

\* C1: the engine returns the empty list when admitted or delivered is missing
\* or unparsable or admitted >= delivered, whatever slots, windows and events
\* are supplied.
C1_EmptyWhenEpisodeBroken ==
  (Done /\ EpisodeBroken) => (result = <<>> /\ ~threw)

\* An admission at 16:00 after a delivery at 14:00 with a supportive-care round,
\* a status event and shift windows on record.
C1_Witness ==
  /\ Done
  /\ patient.care_admitted_at = At(0, 16, 0) /\ patient.care_delivered_at = At(0, 14, 0)
  /\ \E s \in shift_slots : s.rounds_supportive_care
  /\ patient_status_events # {}
  /\ activeShiftWindow = <<W1, W2>>
  /\ result = <<>>

\* C2: on every return path the list is sorted non-decreasing by time.
C2_SortedByTime ==
  Done => \A i \in 1..(Len(result) - 1) : result[i].time <= result[i + 1].time

\* A ghost-path result where a triage line, appended after the 13.99JA entries,
\* has moved in front of them.
C2_Witness ==
  /\ OnGhostPath
  /\ \E i, j \in 1..Len(result) :
       i < j /\ result[i].code = "03.03BZ" /\ result[j].code = "13.99JA"

\* C3: the result holds at most 12 entries 13.99JA in total, however many
\* windows overlap.
C3_AtMostTwelveJa ==
  Done => Cardinality(Lines("13.99JA")) <= 12

\* Two windows that together select more than 12 entries, cut to 12.
C3_Witness ==
  /\ OnGhostPath
  /\ Len(activeShiftWindow) = 2
  /\ Len(jaBillingsOf(patient, patientSlotsFor(patient), activeShiftWindow)) > 12
  /\ Cardinality(Lines("13.99JA")) = 12

\* C4: no two 13.99JA entries of the result have the same doctor and time,
\* also when several windows of one doctor overlap.
C4_NoTwoJaShareDoctorAndTime ==
  Done => \A i, j \in Lines("13.99JA") :
            i # j => ~(result[i].doctor = result[j].doctor
                       /\ result[i].time = result[j].time)

\* The patient's Induction events with a readable time.
Inductions ==
  {e \in patient_status_events :
     e.patient_id = patient.id /\ e.status = "Induction" /\ e.occurred_at >= 0}

Distance(a, b) == IF a >= b THEN a - b ELSE b - a

\* C5: an induction is billed only if fewer than 4 were billed before it and
\* fewer than 2 of those lie less than 24 hours before it; so at most 4 are
\* billed and at most 2 in any span [t, t + 24 h); 5 inductions less than an
\* hour apart give exactly 2 lines 85.5A, 5 inductions on 5 separate days give
\* exactly 4, the last one skipped.
C5_InductionCaps ==
  Done =>
    LET billed == Lines("85.5A")
        latest == CHOOSE e \in Inductions : \A f \in Inductions : f.occurred_at <= e.occurred_at
    IN /\ \A i \in billed :
            LET earlier == {j \in billed : j < i}
            IN /\ Cardinality(earlier) < 4
               /\ \A j \in earlier : result[j].time <= result[i].time
               /\ Cardinality({j \in earlier : result[i].time - result[j].time < 24 * 60}) < 2
       /\ Cardinality(billed) <= 4
       /\ \A i \in billed :
            Cardinality({j \in billed : /\ result[j].time >= result[i].time
                                        /\ result[j].time < result[i].time + 24 * 60}) <= 2
       /\ (/\ Cardinality(Inductions) = 5
           /\ \A e, f \in Inductions : Distance(e.occurred_at, f.occurred_at) < 60)
          => Cardinality(billed) = 2
       /\ (/\ Cardinality(Inductions) = 5
           /\ \A e, f \in Inductions : e # f => dayOf(e.occurred_at) # dayOf(f.occurred_at))
          => /\ Cardinality(billed) = 4
             /\ \A i \in billed : result[i].time < latest.occurred_at

\* Five inductions within one hour, two of them billed.
C5_Witness ==
  /\ Done
  /\ Cardinality(Inductions) = 5
  /\ \A e, f \in Inductions : Distance(e.occurred_at, f.occurred_at) < 60
  /\ Cardinality(Lines("85.5A")) = 2

\* The patient's triage-visit slots the engine collects: from the start of
\* care to the delivery.
TriageVisits ==
  {s \in shift_slots :
     /\ s.patient_id = patient.id /\ s.action = "triage_visit"
     /\ s.start_time >= patient.start_datetime
     /\ s.start_time <= patient.care_delivered_at}

\* C6 as stated: 3 triage-visit slots give 03.03BZ the modifier CMGP03, 1 slot
\* gives CMGP01, 0 slots give no 03.03BZ line.
C6_ThreeSlotsGiveCMGP03 ==
  (Done /\ flag) =>
    /\ Cardinality(TriageVisits) = 3 =>
         /\ Lines("03.03BZ") # {}
         /\ \A i \in Lines("03.03BZ") : result[i].modifier = "CMGP03"
    /\ Cardinality(TriageVisits) = 1 =>
         /\ Lines("03.03BZ") # {}
         /\ \A i \in Lines("03.03BZ") : result[i].modifier = "CMGP01"
    /\ Cardinality(TriageVisits) = 0 => Lines("03.03BZ") = {}

DurationTiers ==
  <<"CMGP01", "CMGP02", "CMGP03", "CMGP04", "CMGP05", "CMGP06", "CMGP07", "CMGP08">>

\* C6, amended: the modifier of 03.03BZ is the tier of slots times 15 minutes,
\* the tiers stepping every 10 minutes from CMGP01 at 15 minutes: 1 slot gives
\* CMGP01, 2 slots CMGP02, 3 slots (45 minutes) CMGP04, 4 slots CMGP05; with 0
\* slots, or the visit disallowed, there is no 03.03BZ line.
C6_ThreeSlotsGiveCMGP04 ==
  Done =>
    LET minutes == Cardinality(TriageVisits) * 15
        tier == Cardinality({k \in 1..8 : 5 + 10 * k <= minutes})
    IN IF minutes = 0 \/ ~flag THEN Lines("03.03BZ") = {}
       ELSE /\ Cardinality(Lines("03.03BZ")) = 1
            /\ \A i \in Lines("03.03BZ") :
                 /\ result[i].modifier = DurationTiers[tier]
                 /\ \A s \in TriageVisits : result[i].time <= s.start_time
            /\ Cardinality(TriageVisits) = 3 =>
                 \A i \in Lines("03.03BZ") : result[i].modifier = "CMGP04"

\* Three triage-visit slots billed as one 03.03BZ line with CMGP04.
C6_Witness ==
  /\ Done /\ flag
  /\ Cardinality(TriageVisits) = 3
  /\ \E i \in Lines("03.03BZ") : result[i].modifier = "CMGP04"

CoinptLines == {i \in Lines("03.03AR") : result[i].modifier = "COINPT"}

\* C8: in the OB / VBAC path the result holds either no 03.03AR line with
\* COINPT or exactly two, the two lines of one pair of attended slots 14 to 16
\* minutes apart.
C8_CoinptOnOnePairOnly ==
  (Done /\ ObDelivery) =>
    /\ Cardinality(CoinptLines) \in {0, 2}
    /\ \A i, j \in CoinptLines :
         i < j => /\ result[j].time - result[i].time >= 14
                  /\ result[j].time - result[i].time <= 16

ComplicationCodes == {"87.99A", "84.21", "87.89B", "85.69B", "87.6"}
DeliveryCodes == {"87.98A", "87.98B", "87.98C"}

DeliveryLines == {i \in 1..Len(result) : result[i].code \in DeliveryCodes}
ComplicationLines == {i \in 1..Len(result) : result[i].code \in ComplicationCodes}

\* The codes of the complication flags set on a delivery slot.
FlaggedCodes(slot) ==
  (IF slot.delivery_postpartum_hemorrhage THEN {"87.99A"} ELSE {})
  \cup (IF slot.delivery_vacuum THEN {"84.21"} ELSE {})
  \cup (IF slot.delivery_vaginal_laceration THEN {"87.89B"} ELSE {})
  \cup (IF slot.delivery_shoulder_dystocia THEN {"85.69B"} ELSE {})
  \cup (IF slot.delivery_manual_placenta THEN {"87.6"} ELSE {})

\* The vacuum and shoulder-dystocia delivery without an explicit code.
IsVacuumDystociaDelivery(slot) ==
  /\ slot.delivery_code = "" /\ slot.delivery_by # "ob"
  /\ FlaggedCodes(slot) = {"84.21", "85.69B"}

DeliveryModifier(slot) ==
  LET afterHours == afterHoursModifier(toDate(slot.delivery_time))
  IN IF ~slot.delivery_bmipro THEN afterHours
     ELSE IF afterHours = "" THEN "BMIPRO"
     ELSE afterHours \o ",BMIPRO"

C9_NoMonitoringWithJa ==
  Done => ~(Lines("87.54B") # {} /\ Lines("13.99JA") # {})

\* A Continuous Monitoring event on record, 13.99JA entries in the result, and
\* the event not billed.
C9_Witness ==
  /\ OnGhostPath
  /\ \E e \in patient_status_events :
       e.patient_id = patient.id /\ e.status = "Continuous Monitoring"
  /\ Lines("13.99JA") # {}
  /\ Lines("87.54B") = {}

\* The 13.99JA entries left by the cap, and the callbacks in slot-time order.
CappedJa ==
  capJaBillings(jaBillingsOf(patient, patientSlotsFor(patient), activeShiftWindow)) \o <<>>

Callbacks ==
  LET infos == buildCallbackBillingInfo(patient, activeShiftWindow)
  IN StableSort(infos, [k \in 1..Len(infos) |-> infos[k].slotTime])

\* The unmodified entries of a 13.99JA list timed in [from, before).
UnmodifiedJaBetween(capped, from, before) ==
  {i \in 1..Len(capped) :
     /\ capped[i].modifier = ""
     /\ capped[i].time >= from /\ capped[i].time < before}

UnmodifiedJaLines == {i \in Lines("13.99JA") : result[i].modifier = ""}

UnmodifiedJaLinesBefore(time) == {i \in UnmodifiedJaLines : result[i].time < time}

CallbackIncluded(info) == \A k \in 1..Len(info.billings) : Contains(info.billings[k])

\* C10 as stated: when the unmodified 13.99JA entries before a callback's slot
\* time are worth more than the callback, they are suppressed and the
\* callback's lines are included.
C10_CallbackWinsWhenGhostsWorthMore ==
  OnGhostPath =>
    LET capped == CappedJa
        callbacks == Callbacks
    IN \A k \in 1..Len(callbacks) :
         LET info == callbacks[k]
         IN Cardinality(UnmodifiedJaBetween(capped, 0, info.slotTime)) * 55 > info.total =>
              /\ CallbackIncluded(info)
              /\ UnmodifiedJaLinesBefore(info.slotTime) = {}

\* The slot time of the latest callback included ahead of the k-th, or 0.
LastIncludedBefore(callbacks, k) ==
  LET times == {callbacks[j].slotTime :
                  j \in {x \in 1..(k - 1) : CallbackIncluded(callbacks[x])}}
  IN IF times = {} THEN 0 ELSE CHOOSE t \in times : \A u \in times : u <= t

\* C10, amended: taking the callbacks in slot-time order, a callback's lines are
\* included exactly when the unmodified 13.99JA entries still present before
\* its slot time are worth (55 each) no more than the callback, and then those
\* entries are suppressed; when they are worth more the callback's lines are
\* omitted and the entries stay.
C10_GhostsWinWhenWorthMore ==
  OnGhostPath =>
    LET capped == CappedJa
        callbacks == Callbacks
        lastIncluded == LastIncludedBefore(callbacks, Len(callbacks) + 1)
    IN /\ \A k \in 1..Len(callbacks) :
            LET info == callbacks[k]
                pending == UnmodifiedJaBetween(capped, LastIncludedBefore(callbacks, k),
                                               info.slotTime)
            IN /\ CallbackIncluded(info) <=> Cardinality(pending) * 55 <= info.total
               /\ CallbackIncluded(info) => UnmodifiedJaLinesBefore(info.slotTime) = {}
       /\ Cardinality(UnmodifiedJaLines)
            = Cardinality({i \in 1..Len(capped) :
                             capped[i].modifier = "" /\ capped[i].time >= lastIncluded})

\* The first slot of the window is attended at 09:00: the four entries before
\* it are worth 220, the callback 159; its lines are left out, the entries stay.
C10_Witness ==
  /\ OnGhostPath
  /\ LET capped == CappedJa
         callbacks == Callbacks
     IN \E k \in 1..Len(callbacks) :
          /\ callbacks[k].total = 159
          /\ Cardinality(UnmodifiedJaBetween(capped, 0, callbacks[k].slotTime)) >= 4
          /\ ~CallbackIncluded(callbacks[k])
          /\ Cardinality(UnmodifiedJaLinesBefore(callbacks[k].slotTime)) >= 4

-----------------------------------------------------------------------------
(* C11 *)

-----------------------------------------------------------------------------
(* C12 *)

\* C12: the engine never raises for malformed input: for a null patient, a
\* window whose start_datetime or end_datetime is missing or unreadable, a
\* window of a doctor that does not exist, or a slot with an unreadable
\* start_time, it returns a list.
C12_NeverRaises ==
  Done => ~threw

-----------------------------------------------------------------------------
(* C13, C14, C15 *)

JaLines == {result[i] : i \in {j \in 1..Len(result) : IsJa(result[j])}}

\* C13: every 13.99JA time in the result is an exact multiple of 15 minutes,
\* for every admitted time and every window start and end.
C13_JaOnQuarterHours ==
  Done => \A b \in JaLines : b.time % 15 = 0

\* C13 as the code has it: the 13.99JA times of a window are 15 minutes apart
\* from the window's start when that start is off the quarter hour and later
\* than the quarter hour of the admission, and on the quarter hours otherwise.
C13_JaOnQuarterHoursOrWindowGrid ==
  Done => \A b \in JaLines :
            \E w \in 1..Len(activeShiftWindow) :
               LET shiftStart == toDate(activeShiftWindow[w].start_datetime)
                   admitted == toDate(patient.care_admitted_at)
               IN /\ activeShiftWindow[w].doctor_id = b.doctor
                  /\ IF shiftStart % 15 # 0 /\ admitted - (admitted % 15) < shiftStart
                     THEN (b.time - shiftStart) % 15 = 0
                     ELSE b.time % 15 = 0

\* 13.99JA lines at 08:10, 08:25, ... of the shift entered as 08:10-19:40, for
\* an admission at 08:12.
C13_Witness ==
  /\ Done
  /\ activeShiftWindow = <<W5>>
  /\ patient.care_admitted_at = At(0, 8, 12)
  /\ \E b \in JaLines : b.time = At(0, 8, 10)
  /\ \E b \in JaLines : b.time = At(0, 8, 25)

\* C14: every 13.99JA entry has admitted <= t < delivered, and t lies inside a
\* shift window of its doctor, also when admitted is not on a quarter hour.
C14_JaInsideEpisodeAndWindow ==
  Done => \A b \in JaLines :
            /\ toDate(patient.care_admitted_at) <= b.time
            /\ b.time < toDate(patient.care_delivered_at)
            /\ \E w \in 1..Len(activeShiftWindow) :
                  /\ activeShiftWindow[w].doctor_id = b.doctor
                  /\ toDate(activeShiftWindow[w].start_datetime) <= b.time
                  /\ b.time < toDate(activeShiftWindow[w].end_datetime)

\* C15: no 13.99JA entry has delivered - 30 min <= t <= delivered, delivered
\* being the patient's care_delivered_at, whether or not a delivery slot exists
\* and whatever time that slot carries.
C15_NoJaInDeliveryBuffer ==
  Done => \A b \in JaLines :
            ~(/\ toDate(patient.care_delivered_at) - DELIVERY_BUFFER_MINUTES <= b.time
              /\ b.time <= toDate(patient.care_delivered_at))

-----------------------------------------------------------------------------
(* C16 *)

\* Admitted Monday 08:00, delivered 14:00, one window of doctor 1 over
\* 08:00-20:00, attended slots of doctor 1 at 08:00 and 08:15, nothing else.
EndToEndScenario ==
  /\ patient = Mother(At(0, 8, 0), At(0, 14, 0))
  /\ activeShiftWindow = <<W1>>
  /\ shift_slots = {Slot(1, 1, 1, At(0, 8, 0), "attended"),
                    Slot(2, 1, 1, At(0, 8, 15), "attended")}
  /\ patient_status_events = {}

\* The 13.99JA part of the scenario: at most 12 lines, inside the window, the
\* lines at 08:00 and 08:15 with the time-of-day modifier of their time and
\* every other line with the empty modifier.
EndToEndJaLines ==
  /\ Cardinality({i \in 1..Len(result) : IsJa(result[i])}) <= JA_CAP
  /\ \A b \in JaLines :
        /\ At(0, 8, 0) <= b.time /\ b.time < At(0, 20, 0)
        /\ b.modifier = IF b.time \in {At(0, 8, 0), At(0, 8, 15)}
                        THEN timeModifier(b.time).modifier ELSE ""
  /\ \A t \in {At(0, 8, 0), At(0, 8, 15)} : \E b \in JaLines : b.time = t

\* C16: in the end-to-end scenario the result has at most 12 13.99JA lines
\* inside the window, those at 08:00 and 08:15 carrying the time-of-day modifier
\* of their time and the others the empty modifier, and one delivery line at
\* 14:00 with code 87.98A.
C16_EndToEnd ==
  (Done /\ EndToEndScenario) =>
    /\ EndToEndJaLines
    /\ Cardinality({i \in 1..Len(result) :
                      result[i].code = "87.98A" /\ result[i].time = At(0, 14, 0)}) = 1

-----------------------------------------------------------------------------
(* C17 *)

\* The doctor-assigned slots of the patient that are no delivery slot and start
\* within [admitted, delivered].
SlotsInEpisode ==
  {s \in shift_slots :
     /\ s.patient_id = patient.id
     /\ s.doctor_id # NoDoctor
     /\ s.action # "delivery"
     /\ toDate(s.start_time) # Null
     /\ toDate(s.start_time) >= toDate(patient.care_admitted_at)
     /\ toDate(s.start_time) <= toDate(patient.care_delivered_at)}

\* The delivery time the patient's delivery slots record.
RecordedDeliveryTimes ==
  {IF toDate(s.delivery_time) # Null THEN toDate(s.delivery_time) ELSE toDate(s.start_time) :
     s \in Deliveries}

\* As many 03.03AR lines of a doctor at a time as there are slots of S with
\* that doctor and time.
ArLinesMatch(S) ==
  LET times == {result[i].time : i \in Lines("03.03AR")} \cup {toDate(s.start_time) : s \in S}
  IN \A t \in times, d \in doctors \cup {NoDoctor} :
       Cardinality({i \in Lines("03.03AR") : result[i].time = t /\ result[i].doctor = d})
         = Cardinality({s \in S : toDate(s.start_time) = t /\ s.doctor_id = d})

\* C17: with delivery code 87.98B or 87.98C the result has no 13.99JA line and
\* exactly one 03.03AR line for every doctor-assigned, non-delivery slot of the
\* patient that starts within [admitted, delivered], and none for anything else.
C17_ArForEverySlotInEpisode ==
  (Done /\ ObDelivery) =>
    /\ \A i \in 1..Len(result) : ~IsJa(result[i])
    /\ ArLinesMatch(SlotsInEpisode)

\* C17 as the code has it: the slots that start at the recorded delivery time
\* get no 03.03AR line.
C17_ArForEverySlotButAtDeliveryTime ==
  (Done /\ ObDelivery) =>
    /\ \A i \in 1..Len(result) : ~IsJa(result[i])
    /\ ArLinesMatch({s \in SlotsInEpisode : toDate(s.start_time) \notin RecordedDeliveryTimes})

\* An OB delivery at 14:00 in a shift window, with a rounds slot at 10:00 that
\* has its 03.03AR line and an attended slot at 14:00 that has none.
C17_Witness ==
  /\ Done /\ ObDelivery
  /\ activeShiftWindow # <<>>
  /\ \E s \in shift_slots : s.action = "rounds"
  /\ \E s \in shift_slots : s.action = "attended" /\ s.start_time = At(0, 14, 0)
  /\ \E i \in Lines("03.03AR") : result[i].time = At(0, 10, 0)
  /\ ~\E i \in Lines("03.03AR") : result[i].time = At(0, 14, 0)

-----------------------------------------------------------------------------
(* C18 *)

\* C18: after any sequence of POST /shift_grid requests, each possibly with
\* several slot_patient_<timestamp> fields of any timestamps inside the active
\* window, shift_slots holds at most one row per (doctor_id, start_time).
C18_OneRowPerDoctorAndTime ==
  \A x, y \in shift_slots :
     (x.doctor_id = y.doctor_id /\ x.start_time = y.start_time) => x = y

-----------------------------------------------------------------------------
(* C19 *)

ActiveWindows == {w \in shift_windows : w.is_active = 1}
OnShiftDoctors == {d \in DOMAIN is_on_shift : is_on_shift[d] = 1}

\* C19: after any sequence of POST /doctors/on_shift, POST
\* /doctors/activate_shift and POST /shift_grid/end_shift at most one
\* shift_windows row is active and at most one doctor is on shift, and after
\* on_shift or activate_shift has gone through, the one active window belongs
\* to the one doctor on shift.
C19_OneActiveWindowOneDoctorOnShift ==
  /\ Cardinality(ActiveWindows) <= 1
  /\ Cardinality(OnShiftDoctors) <= 1
  /\ pc \in {"on_shift", "activate_shift"} =>
       \E w \in shift_windows, d \in doctors :
          /\ ActiveWindows = {w}
          /\ OnShiftDoctors = {d}
          /\ w.doctor_id = d

\* Doctor 2's earlier window activated again while doctor 1 was on shift in a
\* later one: the active window is doctor 2's, and doctor 2 alone is on shift.
C19_Witness ==
  /\ pc = "activate_shift"
  /\ Cardinality(shift_windows) >= 2
  /\ \E w \in ActiveWindows :
        /\ w.doctor_id = 2
        /\ \E v \in shift_windows : v.id > w.id /\ v.doctor_id = 1
  /\ OnShiftDoctors = {2}

-----------------------------------------------------------------------------
(* C20 *)

TriageCodes == {"03.03BZ", "03.05F", "03.05FA", "03.05FB", "87.54A", "13.99BE"}
StatusEventCodes == {"85.5A", "87.54A", "87.54B"}
PremiumCodes == {"03.01AA"}
SupportiveCareCodes == {"03.05M"}
CallbackCodes ==
  {"03.03KA", "03.03LA", "03.03MC", "03.03MD", "03.03DF", "03.05P", "03.05QA", "03.05QB"}

NoWindowEpisode == Done /\ ~EpisodeBroken /\ activeShiftWindow = <<>> /\ ~ObDelivery

\* C20: with no shift window and a delivery that is not OB or VBAC the result
\* has no 13.99JA line, no delivery-code line, no complication line and no
\* callback line: only triage, status-event, after-hours-premium and
\* supportive-care lines.
C20_NoWindowNoGhostLines ==
  NoWindowEpisode =>
    \A i \in 1..Len(result) :
       /\ ~IsJa(result[i])
       /\ result[i].code \notin DeliveryCodes \cup ComplicationCodes \cup CallbackCodes
       /\ result[i].code \in TriageCodes \cup StatusEventCodes \cup PremiumCodes
                                \cup SupportiveCareCodes

\* An episode without shift window whose delivery slot records 87.98A with a
\* postpartum hemorrhage, and whose result holds a triage or supportive-care
\* line and a status-event line.
C20_Witness ==
  /\ NoWindowEpisode
  /\ \E s \in Deliveries : s.delivery_code = "87.98A" /\ s.delivery_postpartum_hemorrhage
  /\ \E i \in 1..Len(result) : result[i].code \in StatusEventCodes
  /\ \E i \in 1..Len(result) :
        result[i].code \in (TriageCodes \ StatusEventCodes) \cup SupportiveCareCodes

-----------------------------------------------------------------------------
(* The modifier of a 13.99JA entry *)

Admitted == toDate(patient.care_admitted_at)
Delivered == toDate(patient.care_delivered_at)

\* The times at which the doctor attended this patient during the episode.
AttendedBy(doctor) ==
  {toDate(s.start_time) :
     s \in {x \in shift_slots : /\ x.patient_id = patient.id
                                /\ x.action = "attended"
                                /\ x.doctor_id = doctor
                                /\ toDate(x.start_time) # Null
                                /\ toDate(x.start_time) >= Admitted
                                /\ toDate(x.start_time) <= Delivered}}

\* Those of them inside the window clamped to the episode.
AttendedInWindow(w) ==
  {t \in AttendedBy(w.doctor_id) :
     /\ t >= Max(Admitted, toDate(w.start_datetime))
     /\ t < Min(Delivered, toDate(w.end_datetime))}

\* t opens a maximal run of S with gaps of at most 15 minutes.
FirstOfRun(t, S) == t \in S /\ ~\E u \in S : u < t /\ t - u <= 15

ExpectedModifier(t, S) == IF FirstOfRun(t, S) THEN timeModifier(t).modifier ELSE ""

\* C21 as stated: the runs are taken over all the slots at which the entry's
\* doctor attended the patient; an entry has the time-of-day modifier when its
\* time opens a run and the empty modifier otherwise.
C21_ModifierOnlyAtEncounterStart ==
  (Done /\ ~threw) =>
    \A b \in JaLines : b.modifier = ExpectedModifier(b.time, AttendedBy(b.doctor))

\* C21 amended: the runs are taken inside each window clamped to the episode;
\* every 13.99JA entry comes from a window of its doctor in which it has the
\* time-of-day modifier when its time opens a run of that window's attended
\* slots, and the empty modifier otherwise.
C21_ModifierOnlyAtEncounterStartInWindow ==
  (Done /\ ~threw) =>
    \A b \in JaLines :
      \E w \in Range(activeShiftWindow) :
        /\ Doctor(w.doctor_id) = b.doctor
        /\ b.modifier = ExpectedModifier(b.time, AttendedInWindow(w))

\* An EV entry at an encounter start, an unmodified entry at a later attended
\* slot of the same encounter and an unmodified entry at an unattended time,
\* all in the evening.
C21_Witness ==
  /\ Done
  /\ \E b \in JaLines, c \in JaLines, g \in JaLines :
       /\ b.modifier = "EV" /\ FirstOfRun(b.time, AttendedBy(b.doctor))
       /\ c.doctor = b.doctor /\ c.time = b.time + 15 /\ c.modifier = ""
       /\ c.time \in AttendedBy(c.doctor)
       /\ g.time \notin AttendedBy(g.doctor) /\ g.modifier = ""
       /\ timeModifier(g.time).modifier = "EV"

-----------------------------------------------------------------------------
(* Attended slots before ghost filler *)

\* The delivery time the buffer is measured from.
DeliveryCutoff ==
  LET scoped == scopedSlotsOf(suppliedSlots(patient), Admitted, Delivered)
      deliveredTime == deliveredTimeOf(deliverySlotOf(StableSort(scoped, slotTimes(scoped))))
  IN IF deliveredTime # Null THEN deliveredTime ELSE Delivered

\* The valid candidate slots of a window.
CandidatesOf(w) ==
  LET windowStart == Max(Admitted, toDate(w.start_datetime))
      windowEnd == Min(Delivered, toDate(w.end_datetime))
  IN IF Doctor(w.doctor_id) = NoDoctor \/ windowStart >= windowEnd THEN {}
     ELSE Range(candidateSlots(alignedStartOf(windowStart, toDate(w.start_datetime)),
                               windowEnd, DeliveryCutoff))

EncounterStartsIn(w) ==
  {t \in CandidatesOf(w) : FirstOfRun(t, AttendedInWindow(w))}

HasEntry(list, doctor, t) ==
  \E i \in 1..Len(list) : list[i].doctor = doctor /\ list[i].time = t

\* C22: in the capped 13.99JA list, before the callbacks are merged, an entry
\* at a time its doctor did not attend the patient is kept only if every
\* attended candidate slot of every window has an entry; and when a window has
\* more than 12 encounter-start slots, no encounter-start slot without an entry
\* has a higher timeModifier weight than a kept one.
C22_AttendedBeforeGhosts ==
  (Done /\ ~threw) =>
    LET capped == CappedJa
    IN /\ (\E i \in 1..Len(capped) : capped[i].time \notin AttendedBy(capped[i].doctor))
            => \A w \in Range(activeShiftWindow) :
                 \A t \in AttendedInWindow(w) \cap CandidatesOf(w) :
                   HasEntry(capped, Doctor(w.doctor_id), t)
       /\ \A w \in Range(activeShiftWindow) :
            Cardinality(EncounterStartsIn(w)) > JA_CAP
            => \A t \in EncounterStartsIn(w) :
                 ~HasEntry(capped, Doctor(w.doctor_id), t)
                 => \A i \in 1..Len(capped) :
                      timeModifier(t).weight <= timeModifier(capped[i].time).weight

\* Two windows whose entries exceed the cap together, ghosts kept next to every
\* attended slot.
C22_Witness ==
  /\ Done
  /\ Len(activeShiftWindow) = 2
  /\ LET capped == CappedJa
     IN /\ Len(capped) = JA_CAP
        /\ \E i \in 1..Len(capped) : capped[i].time \notin AttendedBy(capped[i].doctor)
        /\ \E w \in Range(activeShiftWindow) :
             Cardinality(AttendedInWindow(w) \cap CandidatesOf(w)) >= 2

\* A window with more than 12 encounter-start slots, one of them of weight 1
\* left without an entry while the entries kept are of weight 2 and 3.
C22_WitnessCrowded ==
  /\ Done
  /\ LET capped == CappedJa
     IN \E w \in Range(activeShiftWindow) :
          /\ Cardinality(EncounterStartsIn(w)) > JA_CAP
          /\ \E t \in EncounterStartsIn(w) :
               /\ ~HasEntry(capped, Doctor(w.doctor_id), t)
               /\ timeModifier(t).weight = 1
          /\ \E i \in 1..Len(capped) : capped[i].jaWeight = 3
          /\ \E i \in 1..Len(capped) : capped[i].jaWeight = 2
          /\ \A i \in 1..Len(capped) : capped[i].jaWeight >= 2

-----------------------------------------------------------------------------
(* The ghost slots of one window *)

\* The entries buildJaBillingsForWindow returns for a window, before the cap.
WindowJa(w) ==
  LET scoped == scopedSlotsOf(suppliedSlots(patient), Admitted, Delivered)
      deliveredTime == deliveredTimeOf(deliverySlotOf(StableSort(scoped, slotTimes(scoped))))
  IN buildJaBillingsForWindow(w, patient, Admitted, Delivered, scoped, deliveredTime) \o <<>>

\* The other patients with both times on record that were not delivered by an
\* obstetrician or as a VBAC.
Contenders ==
  {q \in patients : /\ q.id # patient.id
                     /\ toDate(q.care_admitted_at) # Null
                     /\ toDate(q.care_delivered_at) # Null
                     /\ ~\E s \in shift_slots : /\ s.patient_id = q.id
                                                 /\ s.delivery_code \in {"87.98B", "87.98C"}}

\* q's episode contains t outside q's own delivery buffer.
Contends(q, t) ==
  /\ toDate(q.care_admitted_at) <= t /\ t <= toDate(q.care_delivered_at)
  /\ ~(t >= toDate(q.care_delivered_at) - DELIVERY_BUFFER_MINUTES
        /\ t < toDate(q.care_delivered_at))

\* q's episode overlaps the window clamped to the patient's episode.
Overlaps(q, w) ==
  /\ toDate(q.care_delivered_at) > Max(Admitted, toDate(w.start_datetime))
  /\ toDate(q.care_admitted_at) < Min(Delivered, toDate(w.end_datetime))

ContentionAsStated(t, w) == Cardinality({q \in Contenders : Contends(q, t)})

ContentionInWindow(t, w) ==
  Cardinality({q \in Contenders : Overlaps(q, w) /\ Contends(q, t)})

\* a comes before b: contention ascending, weight descending, time ascending.
Before(a, b, ca, cb) ==
  \/ ca < cb
  \/ ca = cb /\ timeModifier(a).weight > timeModifier(b).weight
  \/ ca = cb /\ timeModifier(a).weight = timeModifier(b).weight /\ a < b

GhostTimes(list, w) ==
  {list[i].time : i \in {j \in 1..Len(list) : list[j].time \notin AttendedInWindow(w)}}

AttendedSelected(list, w) ==
  {list[i].time : i \in {j \in 1..Len(list) : list[j].time \in AttendedInWindow(w)}}

\* The unattended candidate slots of the window that are not among the slots
\* of its doctor recorded from the clamped start of the window to its end.
Eligible(w) ==
  {t \in CandidatesOf(w) :
     /\ t \notin AttendedInWindow(w)
     /\ ~\E s \in shift_slots :
           /\ s.doctor_id = w.doctor_id
           /\ s.start_time >= formatLocalDateTime(Max(Admitted, toDate(w.start_datetime)))
           /\ s.start_time < formatLocalDateTime(Min(Delivered, toDate(w.end_datetime)))
           /\ toDate(s.start_time) = t}

\* C23 as stated: in every window the ghost slots are the first
\* (12 - attended selected) eligible candidates by contention ascending, weight
\* descending, time ascending, the contention of a slot being the number of
\* other non-OB/VBAC patients whose episode contains it outside their own
\* delivery buffer.
C23_GhostsByContention ==
  (Done /\ ~threw) =>
    \A w \in Range(activeShiftWindow) :
      LET list == WindowJa(w)
          ghosts == GhostTimes(list, w)
          eligible == Eligible(w)
          wanted == Min(Max(JA_CAP - Cardinality(AttendedSelected(list, w)), 0),
                        Cardinality(eligible))
      IN /\ ghosts \subseteq eligible
         /\ Cardinality(ghosts) = wanted
         /\ \A g \in ghosts : \A e \in eligible \ ghosts :
              Before(g, e, ContentionAsStated(g, w), ContentionAsStated(e, w))

\* C23 amended: the same ordering, the contention counting only the patients
\* whose episode overlaps the window clamped to this patient's episode
\* (delivered after its start, admitted before its end).
C23_GhostsByContentionInWindow ==
  (Done /\ ~threw) =>
    \A w \in Range(activeShiftWindow) :
      LET list == WindowJa(w)
          ghosts == GhostTimes(list, w)
          eligible == Eligible(w)
          wanted == Min(Max(JA_CAP - Cardinality(AttendedSelected(list, w)), 0),
                        Cardinality(eligible))
      IN /\ ghosts \subseteq eligible
         /\ Cardinality(ghosts) = wanted
         /\ \A g \in ghosts : \A e \in eligible \ ghosts :
              Before(g, e, ContentionInWindow(g, w), ContentionInWindow(e, w))

\* A window whose ghosts skip an evening slot another mother contends for and
\* take an afternoon slot of lower weight instead.
C23_Witness ==
  /\ Done
  /\ \E w \in Range(activeShiftWindow) :
       LET ghosts == GhostTimes(WindowJa(w), w)
       IN \E g \in ghosts : \E e \in Eligible(w) \ ghosts :
            /\ ContentionInWindow(g, w) < ContentionInWindow(e, w)
            /\ timeModifier(g).weight < timeModifier(e).weight
            /\ g < e

-----------------------------------------------------------------------------
(* Reassessment encounters *)

ReassessmentCodes == {"03.05F", "03.05FA", "03.05FB"}

ReassessmentLines == {i \in 1..Len(result) : result[i].code \in ReassessmentCodes}

\* The times of the doctor's reassessment slots for the patient.
ReassessedBy(doctor) ==
  {toDate(s.start_time) :
     s \in {x \in Range(triageSlotsFor(patient)) :
              x.action = "triage_reassessment" /\ x.doctor_id = doctor}}

\* The first slots of the doctor's maximal runs of slots 15 minutes apart.
RunStarts(doctor) ==
  {t \in ReassessedBy(doctor) : t - TRIAGE_SLOT_MINUTES \notin ReassessedBy(doctor)}

\* The number of slots of the run of S that begins at t.
RECURSIVE RunLength(_, _)
RunLength(t, S) == IF t \in S THEN 1 + RunLength(t + TRIAGE_SLOT_MINUTES, S) ELSE 0

ReassessmentLine(doctor, t) ==
  LET slots == RunLength(t, ReassessedBy(doctor))
  IN Billing(t, reassessmentBaseCode(t),
             IF slots >= 3 THEN "CMXV35" ELSE IF slots = 2 THEN "CMXV20" ELSE "",
             doctor)

ExpectedReassessments ==
  UNION {{ReassessmentLine(d, t) : t \in RunStarts(d)} : d \in doctors}

\* C24: buildTriageBillings emits exactly one reassessment line for every
\* maximal run of reassessment slots of one doctor 15 minutes apart, at the
\* run's first slot, with reassessmentBaseCode of that time and the modifier of
\* the run's length, also when slots of another doctor lie in between.
C24_OneLinePerRunOfADoctor ==
  Done =>
    /\ \A i \in ReassessmentLines : result[i] \in ExpectedReassessments
    /\ \A b \in ExpectedReassessments :
         Cardinality({i \in ReassessmentLines : result[i] = b}) = 1

\* The same for the episodes in which one doctor did all the reassessments.
C24_OneLinePerRunOfTheOnlyDoctor ==
  (Done /\ \E d \in doctors : \A s \in shift_slots : s.doctor_id = d) =>
    /\ \A i \in ReassessmentLines : result[i] \in ExpectedReassessments
    /\ \A b \in ExpectedReassessments :
         Cardinality({i \in ReassessmentLines : result[i] = b}) = 1

\* One doctor, a run of three from 06:30 billed 03.05FB with CMXV35 and a single
\* slot at 07:45 billed 03.05F without a modifier.
C24_RunsOfTheOnlyDoctor ==
  /\ Done
  /\ \A s \in shift_slots : s.doctor_id = 1
  /\ Contains(Billing(At(0, 6, 30), "03.05FB", "CMXV35", 1))
  /\ Contains(Billing(At(0, 7, 45), "03.05F", "", 1))

\* Doctor 1 reassessed at 06:45 and 07:00, doctor 2 at 06:50.
C24_RunInterleaved ==
  (Done /\ shift_slots = {s \in ReassessmentPalette : s.id \in {32, 33, 35}}) =>
    Contains(Billing(At(0, 6, 45), "03.05FB", "CMXV20", 1))

-----------------------------------------------------------------------------
(* The triage visit and the inductions before admission *)

\* The triage-visit slots of the patient up to the triage cutoff.
VisitSlots == {s \in Range(triageSlotsFor(patient)) : s.action = "triage_visit"}

VisitDoctors == {s.doctor_id : s \in VisitSlots} \ {NoDoctor}

FirstVisitTime ==
  CHOOSE t \in {toDate(s.start_time) : s \in VisitSlots} :
    \A s \in VisitSlots : t <= toDate(s.start_time)

\* An induction strictly before admission on the day of the earliest visit.
InductionsInTriage ==
  {e \in patient_status_events :
     /\ e.patient_id = patient.id /\ e.status = "Induction"
     /\ toDate(e.occurred_at) # Null
     /\ toDate(e.occurred_at) < Admitted
     /\ dayOf(toDate(e.occurred_at)) = dayOf(FirstVisitTime)}

OneVisitLineAtFirstVisit ==
  /\ Cardinality(Lines("03.03BZ")) = 1
  /\ \A i \in Lines("03.03BZ") : result[i].time = FirstVisitTime

\* C25 as stated: the 03.03BZ line is suppressed when such an induction was
\* performed by a doctor of a triage-visit slot, or was unattributed while no
\* triage-visit doctor is known; otherwise one line is emitted at the earliest
\* triage-visit time.
C25_SuppressedWhenUnattributedAndNoDoctorKnown ==
  (Done /\ ~threw /\ VisitSlots # {}) =>
    IF \E e \in InductionsInTriage :
         \/ e.doctor_id # NoDoctor /\ e.doctor_id \in VisitDoctors
         \/ e.doctor_id = NoDoctor /\ VisitDoctors = {}
    THEN Lines("03.03BZ") = {}
    ELSE OneVisitLineAtFirstVisit

\* C25 amended: the 03.03BZ line is suppressed when such an induction was
\* performed by a doctor of a triage-visit slot, or was unattributed while
\* some triage-visit doctor is known; otherwise one line is emitted at the
\* earliest triage-visit time.
C25_SuppressedWhenUnattributedAndDoctorKnown ==
  (Done /\ ~threw /\ VisitSlots # {}) =>
    IF \E e \in InductionsInTriage :
         \/ e.doctor_id # NoDoctor /\ e.doctor_id \in VisitDoctors
         \/ e.doctor_id = NoDoctor /\ VisitDoctors # {}
    THEN Lines("03.03BZ") = {}
    ELSE OneVisitLineAtFirstVisit

\* An unattributed induction before admission on the day of the first visit, a
\* visit by a known doctor, and no 03.03BZ line.
C25_Witness ==
  /\ Done
  /\ VisitSlots # {}
  /\ VisitDoctors # {}
  /\ \A e \in InductionsInTriage : e.doctor_id = NoDoctor
  /\ InductionsInTriage # {}
  /\ Lines("03.03BZ") = {}

-----------------------------------------------------------------------------
(* Callbacks *)

\* The slots of the window's doctor inside the window that have a patient and
\* an action, and the earliest of them.
ActionSlots(w) ==
  {s \in shift_slots : /\ s.doctor_id = w.doctor_id
                        /\ s.start_time >= w.start_datetime
                        /\ s.start_time < w.end_datetime
                        /\ s.patient_id # NoPatient
                        /\ s.action # ""}

FirstActionSlots(w) ==
  {s \in ActionSlots(w) : \A o \in ActionSlots(w) : s.start_time <= o.start_time}

TriageCallbackCodes == {"03.03KA", "03.03LA", "03.03MC", "03.03MD"}
InpatientCallbackCodes == {"03.05P", "03.05QA", "03.05QB"}

\* One triage callback line, or the pair 03.03DF and an inpatient callback
\* code, all at time t.
CallbackShape(billings, t) ==
  /\ \A k \in 1..Len(billings) : billings[k].time = t
  /\ \/ Len(billings) = 1 /\ billings[1].code \in TriageCallbackCodes
     \/ /\ Len(billings) = 2
        /\ billings[1].code = "03.03DF"
        /\ billings[2].code \in InpatientCallbackCodes

\* The windows whose first slot belongs to q.
WindowsFirstFor(q) ==
  {k \in 1..Len(activeShiftWindow) :
     \E s \in FirstActionSlots(activeShiftWindow[k]) : s.patient_id = q.id}

\* C26: every info record buildCallbackBillingInfo returns belongs to a window
\* whose chronologically first slot with a patient and an action is this
\* patient's, and holds one triage callback line or the pair 03.03DF plus an
\* inpatient callback code at that slot's time; there are no more records than
\* such windows; and no window yields callback lines for two patients.
C26_CallbackOnlyForFirstPatient ==
  Done =>
    /\ \A i \in 1..Len(result) :
         \E k \in WindowsFirstFor(patient) :
           \E s \in FirstActionSlots(activeShiftWindow[k]) :
             /\ s.patient_id = patient.id
             /\ result[i].slotTime = toDate(s.start_time)
             /\ CallbackShape(result[i].billings, toDate(s.start_time))
    /\ Len(result) <= Cardinality(WindowsFirstFor(patient))
    /\ \A k \in 1..Len(activeShiftWindow) :
         Cardinality({q \in patients :
                        callbackInfoForWindow(q, activeShiftWindow[k]).billings # <<>>}) <= 1

\* Two windows: a triage callback from one and the pair from the other, while
\* the other mother has a later slot in one of them.
C26_Witness ==
  /\ Done
  /\ Len(result) = 2
  /\ \E i \in 1..2 : Len(result[i].billings) = 1
  /\ \E i \in 1..2 : Len(result[i].billings) = 2
  /\ \E k \in 1..Len(activeShiftWindow) :
       \E s \in ActionSlots(activeShiftWindow[k]) : s.patient_id # patient.id

-----------------------------------------------------------------------------
(* What the callback merge removes *)

\* The lines the ghost path holds before the callbacks are merged, other than
\* the 13.99JA entries: the delivery line and its extras.
DeliveryBillingsBeforeMerge ==
  LET scoped == scopedSlotsOf(suppliedSlots(patient), Admitted, Delivered)
      deliverySlot == deliverySlotOf(StableSort(scoped, slotTimes(scoped)))
  IN ghostDeliveryBillings(deliverySlot, deliveredTimeOf(deliverySlot),
                           deliveryCodeOf(deliverySlot), activeShiftWindow)

\* C27: on the ghost path every entry of the capped 13.99JA list at a time its
\* doctor attended the patient is in the result, whatever callbacks were
\* merged, and so is every other line held before the merge.
C27_AttendedJaSurvivesCallbacks ==
  (OnGhostPath /\ ~threw) =>
    LET capped == CappedJa
        others == DeliveryBillingsBeforeMerge
    IN /\ \A i \in 1..Len(capped) :
            capped[i].time \in AttendedBy(capped[i].doctor)
            => Contains(cleanJaBilling(capped[i]))
       /\ \A k \in 1..Len(others) : Contains(others[k])

\* The second half alone: the lines other than 13.99JA held before the merge
\* are all in the result.
C27_OtherLinesSurviveCallbacks ==
  (OnGhostPath /\ ~threw) =>
    LET others == DeliveryBillingsBeforeMerge
    IN \A k \in 1..Len(others) : Contains(others[k])

-----------------------------------------------------------------------------
(* After-hours premium lines *)

PremiumLines == {i \in 1..Len(result) : result[i].code = "03.01AA"}

PremiumActions == {"triage_visit", "triage_reassessment", "attended"}

\* The distinct times of the doctor's slots for this patient that carry an
\* after-hours-premium modifier, from a time to a time, both included.
PremiumTimes(doctor, from, to) ==
  {toDate(s.start_time) :
     s \in {x \in shift_slots :
              /\ x.patient_id = patient.id
              /\ x.doctor_id = doctor
              /\ x.action \in PremiumActions
              /\ toDate(x.start_time) # Null
              /\ toDate(x.start_time) >= from
              /\ toDate(x.start_time) <= to
              /\ afterHoursPremiumModifier(toDate(x.start_time)) # ""}}

\* The modifier that counts a set of times key by key.
PremiumModifierOf(times) ==
  LET count(key) == Cardinality({t \in times : afterHoursPremiumModifier(t) = key})
      present(key) == count(key) > 0
      keys == SelectSeq(PremiumKeys, present)
  IN Join([k \in 1..Len(keys) |-> keys[k] \o " " \o padStart2(count(keys[k]))], ", ")

\* One line of the doctor counting exactly these times, or none when there
\* are no such times.
PremiumLineCounts(doctor, times) ==
  LET lines == {i \in PremiumLines : result[i].doctor = doctor}
  IN IF times = {} THEN lines = {}
     ELSE /\ Cardinality(lines) = 1
          /\ \A i \in lines : result[i].modifier = PremiumModifierOf(times)

\* C28: the result has at most one 03.01AA line per doctor, and its counts
\* cover every triage_visit, triage_reassessment or attended slot of that
\* doctor for this patient with an after-hours-premium modifier between the
\* admission and the triage cutoff, each distinct slot time once.
C28_PremiumCoversAdmittedToTriageCutoff ==
  (Done /\ ~threw /\ ~preconditionFails(Admitted, Delivered)) =>
    \A doctor \in doctors :
      PremiumLineCounts(doctor,
                        PremiumTimes(doctor, Admitted, triageCutoffOf(patient, Delivered)))

\* The first half alone: at most one 03.01AA line per doctor.
C28_AtMostOnePremiumLinePerDoctor ==
  Done => \A doctor \in doctors :
            Cardinality({i \in PremiumLines : result[i].doctor = doctor}) <= 1

\* What the lines do count: the doctor's slots from the later of the admission
\* and the start of one of the doctor's shift windows to before the earlier of
\* the delivery and the end of that window.
C28_PremiumCoversShiftWindowsBeforeDelivery ==
  (Done /\ ~threw /\ ~preconditionFails(Admitted, Delivered)) =>
    \A doctor \in doctors :
      LET inWindow(t) ==
            \E k \in 1..Len(activeShiftWindow) :
              /\ activeShiftWindow[k].doctor_id = doctor
              /\ t >= toDate(activeShiftWindow[k].start_datetime)
              /\ t < toDate(activeShiftWindow[k].end_datetime)
      IN PremiumLineCounts(doctor,
                           {t \in PremiumTimes(doctor, Admitted, Delivered) :
                              t < Delivered /\ inWindow(t)})

\* A premium line that counts two evening times and one night time while a
\* slot after the delivery and before the triage cutoff is on record.
C28_PremiumCounted ==
  /\ Done
  /\ \E i \in PremiumLines : result[i].modifier = "TEV 01, TNTP 01"
  /\ PremiumTimes(1, Delivered + 1, triageCutoffOf(patient, Delivered)) # {}

-----------------------------------------------------------------------------
(* Ghost entries and the doctor's recorded slots *)

\* The 13.99JA lines of the result at a time their doctor has no attended row
\* for this patient.
GhostLines ==
  {i \in 1..Len(result) :
     /\ result[i].code = "13.99JA"
     /\ ~\E s \in shift_slots : /\ s.patient_id = patient.id
                                /\ s.doctor_id = result[i].doctor
                                /\ s.action = "attended"
                                /\ toDate(s.start_time) = result[i].time}

RecordedAt(doctor, t) ==
  \E s \in shift_slots : s.doctor_id = doctor /\ toDate(s.start_time) = t

\* C29: no ghost 13.99JA entry is at a time for which its doctor has a
\* shift_slots row, for this or any other patient.
C29_GhostNeverOnRecordedSlot ==
  (OnGhostPath /\ ~threw) =>
    \A i \in GhostLines : ~RecordedAt(result[i].doctor, result[i].time)

\* The same for the rows the scheduler reads: those of the doctor from the
\* later of the admission and the start of the shift window.
C29_GhostNeverOnSlotReadAsOccupied ==
  (OnGhostPath /\ ~threw) =>
    \A i \in GhostLines :
      ~\E s \in shift_slots, k \in 1..Len(activeShiftWindow) :
          /\ s.doctor_id = result[i].doctor
          /\ activeShiftWindow[k].doctor_id = s.doctor_id
          /\ toDate(s.start_time) = result[i].time
          /\ toDate(s.start_time) >= Max(Admitted, toDate(activeShiftWindow[k].start_datetime))
          /\ toDate(s.start_time) < Min(Delivered, toDate(activeShiftWindow[k].end_datetime))

\* Ghost entries around a time of the doctor taken by another patient.
C29_GhostsAvoidTakenTime ==
  /\ OnGhostPath
  /\ GhostLines # {}
  /\ \E s \in shift_slots :
       /\ s.patient_id # patient.id
       /\ toDate(s.start_time) > Admitted
       /\ \E i \in GhostLines : /\ result[i].doctor = s.doctor_id
                                /\ result[i].time = toDate(s.start_time) - 15
       /\ \A i \in GhostLines : ~(result[i].doctor = s.doctor_id
                                  /\ result[i].time = toDate(s.start_time))

-----------------------------------------------------------------------------
(* Ghost locks across patients *)

\* C30: after any sequence of confirmations no two ghost_ja_locks rows of
\* different patients have the same doctor_id and start_time.
C30_NoGhostSlotLockedTwice ==
  \A a, b \in ghost_ja_locks :
    a.patient_id # b.patient_id
    => ~(a.doctor_id = b.doctor_id /\ a.start_time = b.start_time)

\* What the locks do keep clear of: a lock belongs to a discharged patient,
\* repeats one of her confirmed 13.99JA billings, and is at no time for which
\* its doctor has a shift_slots row.
C30_LocksAreConfirmedGhostsOffTheGrid ==
  \A l \in ghost_ja_locks :
    /\ patients_status[l.patient_id] = "discharged"
    /\ \E b \in confirmed_billings : /\ b.patient_id = l.patient_id
                                     /\ b.code = "13.99JA"
                                     /\ b.doctor_id = l.doctor_id
                                     /\ b.timestamp = l.start_time
    /\ ~RecordedAt(l.doctor_id, l.start_time)

\* Both mothers confirmed, each with ghost locks.
C30_BothConfirmed ==
  /\ \E l \in ghost_ja_locks : l.patient_id = 1
  /\ \E l \in ghost_ja_locks : l.patient_id = 2

====
